---------------------------- MODULE Spec2Model ----------------------------
(***************************************************************************)
(* State-machine model of the camera manager of the memonitor firmware     *)
(* (src/main/src/camera_manager.c): the singleton camera state, the        *)
(* binary semaphore that serialises captures, the rate limiter, the        *)
(* capture retry loop, the stale-buffer flush and the base64 sizing.       *)
(*                                                                         *)
(* Each task of Tasks is a FreeRTOS task that calls the public functions   *)
(* of the camera manager one after the other.  A function is cut into      *)
(* atomic steps at its accesses to shared state and at its suspension      *)
(* points (vTaskDelay, xSemaphoreTake, esp_camera_fb_get).                 *)
(*                                                                         *)
(* Time is the FreeRTOS tick count.  The code uses it only in differences  *)
(* (ticks since the last capture, ticks since a flush started, ticks left  *)
(* of a delay or of a time-out), so the state holds these differences and  *)
(* the tick interrupt (Tick) advances all of them together.  A delay is a  *)
(* lower bound on the ticks that pass: a task may always run later than    *)
(* its wake-up tick.                                                       *)
(***************************************************************************)
EXTENDS Integers, Sequences, FiniteSets, TLC

(***************************************************************************)
(* Program constants (camera_manager.c, config.h).                         *)
(***************************************************************************)
\* One retry more than the source allows.
MAX_CAPTURE_RETRIES_More == 3 + 1
MAX_CAPTURE_RETRIES == 3
RETRY_DELAY_MS == 100
MIN_CAPTURE_INTERVAL_MS == 500
FLASH_WARMUP_MS == 200
FLASH_STABILIZE_MS == 100
PSRAM_MIN_SIZE_THRESHOLD == 8192
FB_COUNT == 1
SETTLE_FIRST_MS == 300
SETTLE_RETRY_MS == 100
SAFETY_MARGIN == 64
CLEAR_TIMEOUT_MS == 2000
B64_TAKE_TIMEOUT_MS == 10000
RAW_TAKE_TIMEOUT_MS == 5000
DEINIT_TAKE_TIMEOUT_MS == 5000
\* config.h: the seconds between two cycles of camera_upload_task.
NUMBER_OF_SECONDS == 30
\* config.h: the reconnect attempts of the WiFi event handler.
WIFI_MAXIMUM_RETRY == 10
WIFI_CONNECTED_BIT == "WIFI_CONNECTED_BIT"
WIFI_FAIL_BIT == "WIFI_FAIL_BIT"

(***************************************************************************)
(* Bounds of the model.                                                    *)
(***************************************************************************)
\* FreeRTOS tick rate (configTICK_RATE_HZ of the build, not set in src/)
\* under which concurrent captures are explored: the shortest capture
\* (300 ms of delays in camera_capture_raw) then lasts fewer ticks than the
\* minimum interval and the shortest encoding capture (600 ms) at least as
\* many, as on the target.
TickRateHz == 5
\* The tick rate under which the life cycle is explored.
BootTickRateHz == 2
\* Semaphore objects that can be created during one run (one per init).
MaxSems == 2
\* Frame lengths 1..MaxFrameLen, and some large ones, are sized and encoded.
MaxFrameLen == 300
LargeFrameLens == {4096, 5805, 5806, 65536, 153600}

Tasks == {1, 2}

\* esp_err_t values returned by the camera manager.
ESP_OK == "ESP_OK"
ESP_FAIL == "ESP_FAIL"
ESP_ERR_NO_MEM == "ESP_ERR_NO_MEM"
ESP_ERR_INVALID_ARG == "ESP_ERR_INVALID_ARG"
ESP_ERR_INVALID_STATE == "ESP_ERR_INVALID_STATE"
ESP_ERR_TIMEOUT == "ESP_ERR_TIMEOUT"
\* The task is in a call that has not returned, or has made no call.
NoRet == "none"

\* The camera_fb_t handles: NullFb is the NULL pointer; a frame has the
\* handle of one of the driver's FB_COUNT buffers, a length and a data
\* pointer (buf is TRUE when the pointer is non-NULL).
NullFb == [h |-> 0, len |-> 0, buf |-> FALSE]
FrameLens == {0, 4096}
Frames == {f \in [h : 1..FB_COUNT, len : FrameLens, buf : BOOLEAN] :
             f.len > 0 \/ f.buf}

\* The validity test of a capture attempt.
FrameValid(f) == f # NullFb /\ f.len > 0 /\ f.buf


\* The encode buffer pointers: NullBuf is the NULL pointer; an allocated
\* buffer has its capacity in bytes, the pool it came from and the number
\* of base64 characters written into it.
NullBuf == [cap |-> 0, in_psram |-> FALSE, used |-> 0]

(***************************************************************************)
(* State.                                                                  *)
(***************************************************************************)
VARIABLES
    \* statics of camera_manager.c; last_capture_time is held as
    \* since_capture = xTaskGetTickCount() - last_capture_time, counted up
    \* to the minimum interval, and as Never for last_capture_time = 0
    camera_initialized, camera_semaphore, since_capture,
    \* FreeRTOS: semaphore objects; hardware: flash GPIO level
    sem, flash,
    \* esp32-camera driver: initialised, frame buffers handed out,
    \* a frame returned that was not handed out
    drv_init, fb_out, bad_return,
    \* heap: live encode buffers, a buffer freed that was not live; the
    \* build: esp_psram_is_initialized() and configTICK_RATE_HZ
    heap_live, bad_free, sdkconfig,
    \* a semaphore call on a NULL or deleted handle has stopped the system
    panic,
    \* per task: the locals and the position of the call in progress
    loc,
    \* per task, owned by the caller: the last return value, the output
    \* parameters of camera_capture_to_base64 and of camera_capture_raw
    ret, base64_image, base64_len, raw_fb,
    \* main.c: the position of camera_upload_task in its loop
    upload,
    \* wifi_manager.c: the statics, the bits of the event group, the call
    \* of wifi_init_sta in progress, and the station's link
    wifi,
    \* credentials_manager.c: the initialized flag and the NVS namespace
    credentials

statics == <<camera_initialized, camera_semaphore, since_capture>>
driver == <<drv_init, fb_out, bad_return>>
\* What lies outside the camera manager: no function of camera_manager.c
\* reads or writes it.
app == <<upload, wifi, credentials>>
heap == <<heap_live, bad_free, sdkconfig, app>>
callers == <<ret, base64_image, base64_len, raw_fb>>
vars == <<camera_initialized, camera_semaphore, since_capture, sem,
          flash, drv_init, fb_out, bad_return, heap_live, bad_free, sdkconfig,
          panic, loc, ret, base64_image, base64_len, raw_fb, upload,
          wifi, credentials>>

\* pdMS_TO_TICKS: milliseconds to ticks, rounding down.
pdMS_TO_TICKS(ms) == (ms * sdkconfig.tick_rate_hz) \div 1000

\* The activation record of clear_camera_buffers when it is not running.
\* elapsed is xTaskGetTickCount() - start_time, counted up to one tick past
\* the time-out; temp_fb is the frame's handle (0 for NULL): the function
\* reads none of the frame's fields.
NoClear == [max_attempts |-> 0, delay_ms |-> 0, i |-> 0, cleared |-> 0,
            elapsed |-> 0, temp_fb |-> 0]

\* No capture recorded: last_capture_time = 0.
Never == -1

\* The locals of a task that is in no call.  sleep is the ticks left of its
\* vTaskDelay; ticks_to_wait and hwait are the ticks left and the handle of
\* the xSemaphoreTake it is blocked in; seen is the since_capture the rate
\* limiter read, advanced with the tick count until the semaphore call;
\* nreq counts the capture-attempt frame requests, backoffs lists the
\* backoff delays (ms), waited sums the delays (ms) that the capture
\* function requested while holding the semaphore, and flushed says
\* whether clear_camera_buffers returned a frame (and so delayed as well).
IdleLoc == [pc |-> "idle", sleep |-> 0, ticks_to_wait |-> 0, hwait |-> 0,
            attempt |-> 0, fb |-> NullFb, result |-> ESP_OK,
            encoded |-> NullBuf, clr |-> NoClear, seen |-> Never,
            nreq |-> 0, backoffs |-> <<>>, waited |-> 0, flushed |-> FALSE]

\* A task runs only when its delay is over, and never after a panic.
Runnable(t) == ~panic /\ loc[t].sleep = 0

At(t, p) == loc[t].pc = p /\ Runnable(t)

\* A task makes its next call once it has freed the image and returned
\* the frame that its last capture handed to it.
CanCall(t) == At(t, "idle") /\ base64_image[t] = NullBuf /\ raw_fb[t] = NullFb

\* Return from the call in progress with value v.
Return(t, v) ==
    /\ loc' = [loc EXCEPT ![t] = IdleLoc]
    /\ ret' = [ret EXCEPT ![t] = v]

(***************************************************************************)
(* FreeRTOS binary semaphore.                                              *)
(***************************************************************************)
SemOk(h) == h # 0 /\ sem[h] \in {"free", "taken"}
\* A take that succeeds on a semaphore another task holds.
SemFreeIgnoringHolder(h) == h # 0 /\ sem[h] \in {"free", "taken"}
SemFree(h) == h # 0 /\ sem[h] = "free"

\* xSemaphoreGive on a valid handle: a binary semaphore that already holds
\* its permit is left as it is (the give fails).
SemGiveLost(h) == sem
SemGive(h) == [sem EXCEPT ![h] = "free"]

(***************************************************************************)
(* esp32-camera driver.                                                    *)
(***************************************************************************)
\* esp_camera_fb_get: NULL when the driver is not initialised, when every
\* buffer is handed out, or when no frame arrives in time; otherwise a
\* buffer that is not handed out, with any content.
FbGetResults ==
    {NullFb} \cup
    (IF drv_init THEN {f \in Frames : f.h \notin fb_out} ELSE {})

\* The buffers handed out after esp_camera_fb_get returned f.
FbGot(f) == IF f = NullFb THEN fb_out ELSE fb_out \cup {f.h}

\* esp_camera_fb_return(f) for a non-NULL f.
FbReturnedKept(f) == fb_out
FbReturned(f) == fb_out \ {f.h}
FbReturnBad(f) == bad_return \/ f.h \notin fb_out

(***************************************************************************)
(* Base64 sizing (camera_capture_to_base64) and the base64 transform.      *)
(***************************************************************************)
RECURSIVE BitLen(_)
BitLen(x) == IF x = 0 THEN 0 ELSE 1 + BitLen(x \div 2)

\* x / 2^e rounded to nearest, ties to even, for x = hi * 4096 + lo.
RoundShift(hi, lo, e) ==
    LET q == IF e <= 12 THEN hi * 2^(12 - e) + lo \div 2^e
                        ELSE hi \div 2^(e - 12)
        r == IF e <= 12 THEN lo % 2^e
                        ELSE (hi % 2^(e - 12)) * 4096 + lo
        half == 2^(e - 1)
    IN  IF r > half \/ (r = half /\ q % 2 = 1) THEN q + 1 ELSE q

\* (size_t)(len * BASE64_OVERHEAD_FACTOR) in IEEE single precision:
\* 1.4f is 11744051 * 2^-23 = (2867 * 4096 + 819) * 2^-23; the product is
\* rounded to a 24-bit significand and then truncated to an integer.
FloatMulOverhead(len) ==
    LET hi == len * 2867 + (len * 819) \div 4096
        lo == (len * 819) % 4096
        e == BitLen(hi) - 12
    IN  IF e <= 0 THEN (hi * 4096 + lo) \div 2^23
        ELSE LET q == RoundShift(hi, lo, e)
             IN  IF e <= 23 THEN q \div 2^(23 - e) ELSE q * 2^(e - 23)

\* encoded_len of camera_capture_to_base64.
EncodedLenNoMargin(len) == FloatMulOverhead(len)
EncodedLen(len) == FloatMulOverhead(len) + SAFETY_MARGIN

\* mbedtls_base64_encode(dst, dlen, &olen, src, slen): the status (0, or
\* non-zero for MBEDTLS_ERR_BASE64_BUFFER_TOO_SMALL) and olen.
\* The length of an encoding without padding.
Base64CharsUnpadded(slen) == (4 * slen + 2) \div 3
Base64Chars(slen) == 4 * (slen \div 3 + (IF slen % 3 # 0 THEN 1 ELSE 0))
\* The '=' characters that end the encoding of slen bytes.
Base64Padding(slen) == (3 - (slen % 3)) % 3
MbedtlsBase64Encode(dlen, slen) ==
    IF slen = 0 THEN [rc |-> 0, olen |-> 0]
    ELSE IF dlen < Base64Chars(slen) + 1
         THEN [rc |-> 1, olen |-> Base64Chars(slen) + 1]
         ELSE [rc |-> 0, olen |-> Base64Chars(slen)]

\* An allocation that gives up when the large pool fails.
AllocateBase64BufferNoFallback(required_size, psram_ok, dram_ok) ==
    IF sdkconfig.psram /\ required_size > PSRAM_MIN_SIZE_THRESHOLD
    THEN IF psram_ok
         THEN [cap |-> required_size, in_psram |-> TRUE, used |-> 0]
         ELSE NullBuf
    ELSE IF dram_ok
         THEN [cap |-> required_size, in_psram |-> FALSE, used |-> 0]
         ELSE NullBuf
\* allocate_base64_buffer(required_size, &used_psram); psram_ok and dram_ok
\* say whether heap_caps_malloc succeeds in the large and the default pool.
AllocateBase64Buffer(required_size, psram_ok, dram_ok) ==
    IF sdkconfig.psram /\ required_size > PSRAM_MIN_SIZE_THRESHOLD /\ psram_ok
    THEN [cap |-> required_size, in_psram |-> TRUE, used |-> 0]
    ELSE IF dram_ok
         THEN [cap |-> required_size, in_psram |-> FALSE, used |-> 0]
         ELSE NullBuf

(***************************************************************************)
(* Rate limiter and semaphore acquisition, shared by the two captures.     *)
(***************************************************************************)
\* The ticks to wait before taking the semaphore: 0 when no capture was
\* recorded (last_capture_time = 0) or the minimum interval has passed.
RateWaitNone(time_since_last) == 0
RateWait(time_since_last) ==
    IF time_since_last # Never
       /\ time_since_last < pdMS_TO_TICKS(MIN_CAPTURE_INTERVAL_MS)
    THEN pdMS_TO_TICKS(MIN_CAPTURE_INTERVAL_MS) - time_since_last
    ELSE 0

\* The locals of task t once its xSemaphoreTake has succeeded; the retry
\* loop of camera_capture_to_base64 starts with attempt = 1.
Acquired(t, p) ==
    [loc[t] EXCEPT !.pc = p, !.ticks_to_wait = 0, !.hwait = 0,
                   !.seen = Never,
                   !.attempt = IF p = "b64_attempt" THEN 1 ELSE 0]

\* xSemaphoreTake(camera_semaphore, timeout): the call.  The semaphore is
\* taken at once when it is free; otherwise the task blocks (pc wait_pc).
\* A NULL or deleted handle stops the system.
TakeCall(t, timeout_ms, got_pc, wait_pc) ==
    LET h == camera_semaphore
    IN  IF ~SemOk(h)
        THEN panic' = TRUE /\ UNCHANGED <<sem, loc>>
        ELSE /\ UNCHANGED panic
             /\ IF SemFree(h)
                THEN /\ sem' = [sem EXCEPT ![h] = "taken"]
                     /\ loc' = [loc EXCEPT ![t] = Acquired(t, got_pc)]
                ELSE /\ UNCHANGED sem
                     /\ loc' = [loc EXCEPT ![t] =
                                  [@ EXCEPT !.pc = wait_pc, !.hwait = h,
                                     !.seen = Never,
                                     !.ticks_to_wait = pdMS_TO_TICKS(timeout_ms)]]

(***************************************************************************)
(* clear_camera_buffers(max_attempts, delay_ms).                           *)
(***************************************************************************)
\* The call: the activation record, start_time read from the tick count.
ClearCall(max_attempts, delay_ms) ==
    [max_attempts |-> max_attempts, delay_ms |-> delay_ms, i |-> 0,
     cleared |-> 0, elapsed |-> 0, temp_fb |-> 0]

\* Where the caller continues when clear_camera_buffers returns, and the
\* delay the caller requests right after it.
AfterClear(l) ==
    CASE l.pc = "b64_clear1" ->
             LET ms == IF l.attempt = 1 THEN SETTLE_FIRST_MS ELSE SETTLE_RETRY_MS
             IN  [l EXCEPT !.pc = "b64_flash_on", !.clr = NoClear,
                           !.sleep = pdMS_TO_TICKS(ms),
                           !.waited = @ + ms]
      [] l.pc = "b64_clear2" ->
             [l EXCEPT !.pc = "b64_get", !.clr = NoClear,
                       !.sleep = pdMS_TO_TICKS(FLASH_STABILIZE_MS),
                       !.waited = @ + FLASH_STABILIZE_MS]
      [] l.pc = "raw_clear" ->
             [l EXCEPT !.pc = "raw_flash_on", !.clr = NoClear]
      [] OTHER ->
             [l EXCEPT !.pc = "deinit_finish", !.clr = NoClear]

ClearPcs == {"b64_clear1", "b64_clear2", "raw_clear", "deinit_clear"}

\* One pass of the loop head: the bound, the 2 s time-out, the frame
\* request.  The loop ends on a NULL frame.
\* A flush loop without the attempt cap.
ClearGetUncapped(t) ==
    /\ loc[t].pc \in ClearPcs /\ Runnable(t)
    /\ loc[t].clr.temp_fb = 0
    /\ LET c == loc[t].clr
       IN  IF ~(c.elapsed > pdMS_TO_TICKS(CLEAR_TIMEOUT_MS))
           THEN \E h \in {f.h : f \in FbGetResults} :
                  /\ fb_out' = fb_out \cup ({h} \ {0})
                  /\ loc' = [loc EXCEPT ![t] =
                               IF h = 0 THEN AfterClear(loc[t])
                               ELSE [@ EXCEPT !.clr.temp_fb = h]]
           ELSE /\ loc' = [loc EXCEPT ![t] = AfterClear(loc[t])]
                /\ UNCHANGED fb_out
    /\ UNCHANGED <<statics, sem, flash, drv_init, bad_return, heap,
                   panic, callers>>

ClearGet(t) ==
    /\ loc[t].pc \in ClearPcs /\ Runnable(t)
    /\ loc[t].clr.temp_fb = 0
    /\ LET c == loc[t].clr
       IN  IF c.i < c.max_attempts
              /\ ~(c.elapsed > pdMS_TO_TICKS(CLEAR_TIMEOUT_MS))
           THEN \E h \in {f.h : f \in FbGetResults} :
                  /\ fb_out' = fb_out \cup ({h} \ {0})
                  /\ loc' = [loc EXCEPT ![t] =
                               IF h = 0 THEN AfterClear(loc[t])
                               ELSE [@ EXCEPT !.clr.temp_fb = h]]
           ELSE /\ loc' = [loc EXCEPT ![t] = AfterClear(loc[t])]
                /\ UNCHANGED fb_out
    /\ UNCHANGED <<statics, sem, flash, drv_init, bad_return, heap,
                   panic, callers>>

\* The frame is returned, counted, and the task delays.
ClearReturn(t) ==
    /\ loc[t].pc \in ClearPcs /\ Runnable(t)
    /\ loc[t].clr.temp_fb # 0
    /\ LET c == loc[t].clr
       IN  /\ fb_out' = fb_out \ {c.temp_fb}
           /\ bad_return' = (bad_return \/ c.temp_fb \notin fb_out)
           /\ loc' = [loc EXCEPT ![t] =
                        [@ EXCEPT !.clr.temp_fb = 0,
                                  !.clr.cleared = @ + 1,
                                  !.clr.i = @ + 1,
                                  !.sleep = IF c.delay_ms > 0
                                            THEN pdMS_TO_TICKS(c.delay_ms)
                                            ELSE 0,
                                  !.flushed = TRUE]]
    /\ UNCHANGED <<statics, sem, flash, drv_init, heap, panic, callers>>

(***************************************************************************)
(* camera_capture_to_base64(base64_output, output_len).                    *)
(***************************************************************************)
\* The call and the two argument checks.  The caller passes either NULL
\* (args_ok = FALSE) or the addresses of base64_image and base64_len, which
\* it has set to NULL and 0 (main.c).
\* The first check of both capture functions: if (!camera_initialized).
NotInitializedNever == FALSE
NotInitialized == ~camera_initialized

B64Entry(t, args_ok) ==
    /\ CanCall(t)
    /\ IF NotInitialized THEN Return(t, ESP_ERR_INVALID_STATE)
       ELSE IF ~args_ok THEN Return(t, ESP_ERR_INVALID_ARG)
       ELSE /\ loc' = [loc EXCEPT ![t].pc = "b64_rate"]
            /\ ret' = [ret EXCEPT ![t] = NoRet]
    /\ UNCHANGED <<statics, sem, flash, driver, heap, panic,
                   base64_image, base64_len, raw_fb>>

\* The rate limiter: the tick count and last_capture_time are read and the
\* task delays for the rest of the minimum interval.
B64Rate(t) ==
    /\ At(t, "b64_rate")
    /\ loc' = [loc EXCEPT ![t] =
                 [@ EXCEPT !.pc = "b64_take",
                           !.seen = since_capture,
                           !.sleep = RateWait(since_capture)]]
    /\ UNCHANGED <<statics, sem, flash, driver, heap, panic, callers>>

B64Take(t) ==
    /\ At(t, "b64_take")
    /\ TakeCall(t, B64_TAKE_TIMEOUT_MS, "b64_attempt", "b64_wait")
    /\ UNCHANGED <<statics, flash, driver, heap, callers>>

\* The head of the retry loop and the first flush of an attempt.
B64Attempt(t) ==
    /\ At(t, "b64_attempt")
    /\ loc' = [loc EXCEPT ![t] =
                 IF loc[t].attempt <= MAX_CAPTURE_RETRIES
                 THEN [@ EXCEPT !.pc = "b64_clear1", !.clr = ClearCall(5, 5)]
                 ELSE [@ EXCEPT !.pc = "b64_flash_off"]]
    /\ UNCHANGED <<statics, sem, flash, driver, heap, panic, callers>>

\* Flash on, warm-up delay.
B64FlashOn(t) ==
    /\ At(t, "b64_flash_on")
    /\ flash' = 1
    /\ loc' = [loc EXCEPT ![t] =
                 [@ EXCEPT !.pc = "b64_stabilize",
                           !.sleep = pdMS_TO_TICKS(FLASH_WARMUP_MS),
                           !.waited = @ + FLASH_WARMUP_MS]]
    /\ UNCHANGED <<statics, sem, driver, heap, panic, callers>>

\* The second flush of an attempt.
B64Stabilize(t) ==
    /\ At(t, "b64_stabilize")
    /\ loc' = [loc EXCEPT ![t] =
                 [@ EXCEPT !.pc = "b64_clear2", !.clr = ClearCall(3, 10)]]
    /\ UNCHANGED <<statics, sem, flash, driver, heap, panic, callers>>

\* The capture attempt's frame request.
B64Get(t) ==
    /\ At(t, "b64_get")
    /\ \E f \in FbGetResults :
         /\ fb_out' = FbGot(f)
         /\ loc' = [loc EXCEPT ![t] =
                      [@ EXCEPT !.pc = "b64_validate", !.fb = f,
                                !.nreq = @ + 1]]
    /\ UNCHANGED <<statics, sem, flash, drv_init, bad_return, heap,
                   panic, callers>>

\* The backoff delay (ms) after failed attempt number attempt.
BackoffMsDoubled(attempt) == RETRY_DELAY_MS * 2^attempt
BackoffMs(attempt) == RETRY_DELAY_MS * 2^(attempt - 1)

\* The frame of a failed attempt is returned to the driver.
B64ReturnFailedNever(f) == FALSE
B64ReturnFailed(f) == f # NullFb

\* The flash level written after a failed attempt.
B64FlashAfterFailed == 0

\* Validation of the attempt: a valid frame leaves the loop; otherwise the
\* frame is returned, the flash is switched off and the task backs off.
B64Validate(t) ==
    /\ At(t, "b64_validate")
    /\ LET l == loc[t]
       IN  IF FrameValid(l.fb)
           THEN /\ loc' = [loc EXCEPT ![t].pc = "b64_flash_off"]
                /\ UNCHANGED <<flash, fb_out, bad_return>>
           ELSE /\ IF B64ReturnFailed(l.fb)
                   THEN /\ fb_out' = FbReturned(l.fb)
                        /\ bad_return' = FbReturnBad(l.fb)
                   ELSE UNCHANGED <<fb_out, bad_return>>
                /\ flash' = B64FlashAfterFailed
                /\ loc' = [loc EXCEPT ![t] =
                      IF l.attempt < MAX_CAPTURE_RETRIES
                      THEN [@ EXCEPT !.pc = "b64_attempt", !.fb = NullFb,
                               !.attempt = @ + 1,
                               !.sleep = pdMS_TO_TICKS(BackoffMs(l.attempt)),
                               !.backoffs = Append(@, BackoffMs(l.attempt)),
                               !.waited = @ + BackoffMs(l.attempt)]
                      ELSE [@ EXCEPT !.pc = "b64_attempt", !.fb = NullFb,
                               !.attempt = @ + 1]]
    /\ UNCHANGED <<statics, sem, drv_init, heap, panic, callers>>

\* The flash level written after the retry loop.
B64FlashAfterLoopHigh == 0 + 1
B64FlashAfterLoop == 0

\* The result when all attempts failed.
AllAttemptsFailedOk == "ESP_OK"
AllAttemptsFailed == ESP_FAIL

\* After the loop: flash off, and the test for exhausted retries.
B64FlashOff(t) ==
    /\ At(t, "b64_flash_off")
    /\ flash' = B64FlashAfterLoop
    /\ loc' = [loc EXCEPT ![t] =
                 IF ~FrameValid(loc[t].fb)
                 THEN [@ EXCEPT !.pc = "b64_cleanup",
                                !.result = AllAttemptsFailed]
                 ELSE [@ EXCEPT !.pc = "b64_alloc"]]
    /\ UNCHANGED <<statics, sem, driver, heap, panic, callers>>

\* Sizing and allocation of the encode buffer.
B64Alloc(t) ==
    /\ At(t, "b64_alloc")
    /\ \E psram_ok, dram_ok \in BOOLEAN :
         LET buf == AllocateBase64Buffer(EncodedLen(loc[t].fb.len) + 1,
                                         psram_ok, dram_ok)
         IN  IF buf = NullBuf
             THEN /\ loc' = [loc EXCEPT ![t] =
                        [@ EXCEPT !.pc = "b64_cleanup",
                                  !.result = ESP_ERR_NO_MEM]]
                  /\ UNCHANGED heap_live
             ELSE /\ loc' = [loc EXCEPT ![t] =
                        [@ EXCEPT !.pc = "b64_encode", !.encoded = buf]]
                  /\ heap_live' = heap_live + 1
    /\ UNCHANGED <<statics, sem, flash, driver, bad_free, sdkconfig, app, panic,
                   callers>>

\* A transform that hands the buffer over and keeps its own pointer.
B64EncodeKeepsPointer(t) ==
    /\ At(t, "b64_encode")
    /\ LET l == loc[t]
           r == MbedtlsBase64Encode(EncodedLen(l.fb.len), l.fb.len)
       IN  IF r.rc # 0
           THEN /\ loc' = [loc EXCEPT ![t] =
                      [@ EXCEPT !.pc = "b64_cleanup", !.result = ESP_FAIL]]
                /\ UNCHANGED <<base64_image, base64_len, since_capture>>
           ELSE /\ base64_image' = [base64_image EXCEPT ![t] =
                                      [l.encoded EXCEPT !.used = r.olen]]
                /\ base64_len' = [base64_len EXCEPT ![t] = r.olen]
                /\ since_capture' = 0
                /\ loc' = [loc EXCEPT ![t] =
                      [@ EXCEPT !.pc = "b64_cleanup"]]
    /\ UNCHANGED <<camera_initialized, camera_semaphore, sem, flash,
                   driver, heap, panic, ret, raw_fb>>

\* The transform; on success the buffer and its length go to the caller
\* and last_capture_time is set.
B64Encode(t) ==
    /\ At(t, "b64_encode")
    /\ LET l == loc[t]
           r == MbedtlsBase64Encode(EncodedLen(l.fb.len), l.fb.len)
       IN  IF r.rc # 0
           THEN /\ loc' = [loc EXCEPT ![t] =
                      [@ EXCEPT !.pc = "b64_cleanup", !.result = ESP_FAIL]]
                /\ UNCHANGED <<base64_image, base64_len, since_capture>>
           ELSE /\ base64_image' = [base64_image EXCEPT ![t] =
                                      [l.encoded EXCEPT !.used = r.olen]]
                /\ base64_len' = [base64_len EXCEPT ![t] = r.olen]
                /\ since_capture' = 0
                /\ loc' = [loc EXCEPT ![t] =
                      [@ EXCEPT !.pc = "b64_cleanup", !.encoded = NullBuf]]
    /\ UNCHANGED <<camera_initialized, camera_semaphore, sem, flash,
                   driver, heap, panic, ret, raw_fb>>

\* A cleanup that leaves the frame with the function.
B64CleanupKeepsFrame(t) ==
    /\ At(t, "b64_cleanup")
    /\ LET l == loc[t]
       IN  /\ IF l.encoded # NullBuf
              THEN /\ heap_live' = heap_live - 1
                   /\ bad_free' = (bad_free \/ heap_live = 0)
              ELSE UNCHANGED <<heap_live, bad_free>>
           /\ IF SemOk(camera_semaphore)
              THEN /\ sem' = SemGive(camera_semaphore)
                   /\ Return(t, l.result)
                   /\ UNCHANGED panic
              ELSE /\ panic' = TRUE
                   /\ UNCHANGED <<sem, loc, ret>>
    /\ UNCHANGED <<statics, flash, driver, sdkconfig, app, base64_image,
                   base64_len, raw_fb>>

\* cleanup: the frame is returned, a buffer still owned is freed, the
\* semaphore is given and the result returned.
B64Cleanup(t) ==
    /\ At(t, "b64_cleanup")
    /\ LET l == loc[t]
       IN  /\ IF l.fb # NullFb
              THEN /\ fb_out' = FbReturned(l.fb)
                   /\ bad_return' = FbReturnBad(l.fb)
              ELSE UNCHANGED <<fb_out, bad_return>>
           /\ IF l.encoded # NullBuf
              THEN /\ heap_live' = heap_live - 1
                   /\ bad_free' = (bad_free \/ heap_live = 0)
              ELSE UNCHANGED <<heap_live, bad_free>>
           /\ IF SemOk(camera_semaphore)
              THEN /\ sem' = SemGive(camera_semaphore)
                   /\ Return(t, l.result)
                   /\ UNCHANGED panic
              ELSE /\ panic' = TRUE
                   /\ UNCHANGED <<sem, loc, ret>>
    /\ UNCHANGED <<statics, flash, drv_init, sdkconfig, app, base64_image,
                   base64_len, raw_fb>>

\* A task blocked in xSemaphoreTake: it takes the semaphore once it is
\* free, and gives up when its time-out has passed and it is still taken.
\* A semaphore deleted under the waiting task stops the system.
TakeWaitGiving(t, wait_pc, got_pc) ==
    /\ loc[t].pc = wait_pc /\ ~panic
    /\ LET h == loc[t].hwait
       IN  CASE sem[h] = "free" ->
                  /\ sem' = [sem EXCEPT ![h] = "taken"]
                  /\ loc' = [loc EXCEPT ![t] = Acquired(t, got_pc)]
                  /\ UNCHANGED <<ret, panic>>
             [] sem[h] = "taken" ->
                  /\ loc[t].ticks_to_wait = 0
                  /\ Return(t, ESP_ERR_TIMEOUT)
                  /\ sem' = SemGive(h)
                  /\ UNCHANGED panic
             [] OTHER ->
                  /\ panic' = TRUE
                  /\ UNCHANGED <<sem, loc, ret>>
TakeWait(t, wait_pc, got_pc) ==
    /\ loc[t].pc = wait_pc /\ ~panic
    /\ LET h == loc[t].hwait
       IN  CASE sem[h] = "free" ->
                  /\ sem' = [sem EXCEPT ![h] = "taken"]
                  /\ loc' = [loc EXCEPT ![t] = Acquired(t, got_pc)]
                  /\ UNCHANGED <<ret, panic>>
             [] sem[h] = "taken" ->
                  /\ loc[t].ticks_to_wait = 0
                  /\ Return(t, ESP_ERR_TIMEOUT)
                  /\ UNCHANGED <<sem, panic>>
             [] OTHER ->
                  /\ panic' = TRUE
                  /\ UNCHANGED <<sem, loc, ret>>

B64Wait(t) ==
    /\ TakeWait(t, "b64_wait", "b64_attempt")
    /\ UNCHANGED <<statics, flash, driver, heap, base64_image,
                   base64_len, raw_fb>>

(***************************************************************************)
(* camera_capture_raw(fb).                                                 *)
(***************************************************************************)
\* The caller passes either NULL (args_ok = FALSE) or the address of its
\* frame pointer raw_fb, which holds no frame.
RawEntry(t, args_ok) ==
    /\ CanCall(t)
    /\ IF NotInitialized THEN Return(t, ESP_ERR_INVALID_STATE)
       ELSE IF ~args_ok THEN Return(t, ESP_ERR_INVALID_ARG)
       ELSE /\ loc' = [loc EXCEPT ![t].pc = "raw_rate"]
            /\ ret' = [ret EXCEPT ![t] = NoRet]
    /\ UNCHANGED <<statics, sem, flash, driver, heap, panic,
                   base64_image, base64_len, raw_fb>>

RawRate(t) ==
    /\ At(t, "raw_rate")
    /\ loc' = [loc EXCEPT ![t] =
                 [@ EXCEPT !.pc = "raw_take",
                           !.seen = since_capture,
                           !.sleep = RateWait(since_capture)]]
    /\ UNCHANGED <<statics, sem, flash, driver, heap, panic, callers>>

RawTake(t) ==
    /\ At(t, "raw_take")
    /\ TakeCall(t, RAW_TAKE_TIMEOUT_MS, "raw_prepare", "raw_wait")
    /\ UNCHANGED <<statics, flash, driver, heap, callers>>

RawWait(t) ==
    /\ TakeWait(t, "raw_wait", "raw_prepare")
    /\ UNCHANGED <<statics, flash, driver, heap, base64_image,
                   base64_len, raw_fb>>

RawPrepare(t) ==
    /\ At(t, "raw_prepare")
    /\ loc' = [loc EXCEPT ![t] =
                 [@ EXCEPT !.pc = "raw_clear", !.clr = ClearCall(5, 10)]]
    /\ UNCHANGED <<statics, sem, flash, driver, heap, panic, callers>>

RawFlashOn(t) ==
    /\ At(t, "raw_flash_on")
    /\ flash' = 1
    /\ loc' = [loc EXCEPT ![t] =
                 [@ EXCEPT !.pc = "raw_stabilize",
                           !.sleep = pdMS_TO_TICKS(FLASH_WARMUP_MS),
                           !.waited = @ + FLASH_WARMUP_MS]]
    /\ UNCHANGED <<statics, sem, driver, heap, panic, callers>>

RawStabilize(t) ==
    /\ At(t, "raw_stabilize")
    /\ loc' = [loc EXCEPT ![t] =
                 [@ EXCEPT !.pc = "raw_get",
                           !.sleep = pdMS_TO_TICKS(FLASH_STABILIZE_MS),
                           !.waited = @ + FLASH_STABILIZE_MS]]
    /\ UNCHANGED <<statics, sem, flash, driver, heap, panic, callers>>

\* The frame request, flash off, and the two returns.
\* last_capture_time after the frame request of a raw capture: written
\* only when a frame was obtained.
RawRecordedTimeReset(f) == IF f = NullFb THEN Never ELSE 0
RawRecordedTimeAlways(f) == 0
RawRecordedTime(f) == IF f = NullFb THEN since_capture ELSE 0

RawGet(t) ==
    /\ At(t, "raw_get")
    /\ \E f \in FbGetResults :
         /\ fb_out' = FbGot(f)
         /\ raw_fb' = [raw_fb EXCEPT ![t] = f]
         /\ flash' = 0
         /\ since_capture' = RawRecordedTime(f)
         /\ IF SemOk(camera_semaphore)
            THEN /\ sem' = SemGive(camera_semaphore)
                 /\ Return(t, IF f = NullFb THEN ESP_FAIL ELSE ESP_OK)
                 /\ UNCHANGED panic
            ELSE /\ panic' = TRUE
                 /\ UNCHANGED <<sem, loc, ret>>
    /\ UNCHANGED <<camera_initialized, camera_semaphore, drv_init,
                   bad_return, heap, base64_image, base64_len>>

(***************************************************************************)
(* The callers and the other public functions.                             *)
(***************************************************************************)
\* camera_return_frame_buffer(fb) with the frame a raw capture handed out.
ReturnFrameBuffer(t) ==
    /\ At(t, "idle")
    /\ raw_fb[t] # NullFb
    /\ fb_out' = FbReturned(raw_fb[t])
    /\ bad_return' = FbReturnBad(raw_fb[t])
    /\ raw_fb' = [raw_fb EXCEPT ![t] = NullFb]
    /\ UNCHANGED <<statics, sem, flash, drv_init, heap, panic, loc, ret,
                   base64_image, base64_len>>

\* The caller frees the encoded image (main.c) and clears its variables.
FreeImage(t) ==
    /\ At(t, "idle")
    /\ base64_image[t] # NullBuf
    /\ heap_live' = heap_live - 1
    /\ bad_free' = (bad_free \/ heap_live = 0)
    /\ base64_image' = [base64_image EXCEPT ![t] = NullBuf]
    /\ base64_len' = [base64_len EXCEPT ![t] = 0]
    /\ UNCHANGED <<statics, sem, flash, driver, sdkconfig, app, panic, loc,
                   ret, raw_fb>>

\* A camera_set_flash that goes on only when the semaphore is free.
SetFlashGated(t, enable) ==
    /\ CanCall(t)
    /\ IF ~camera_initialized
       THEN Return(t, ESP_ERR_INVALID_STATE) /\ UNCHANGED flash
       ELSE /\ SemFree(camera_semaphore)
            /\ Return(t, ESP_OK) /\ flash' = (IF enable THEN 1 ELSE 0)
    /\ UNCHANGED <<statics, sem, driver, heap, panic, base64_image,
                   base64_len, raw_fb>>

\* camera_set_flash(enable).
SetFlash(t, enable) ==
    /\ CanCall(t)
    /\ IF ~camera_initialized
       THEN Return(t, ESP_ERR_INVALID_STATE) /\ UNCHANGED flash
       ELSE Return(t, ESP_OK) /\ flash' = (IF enable THEN 1 ELSE 0)
    /\ UNCHANGED <<statics, sem, driver, heap, panic, base64_image,
                   base64_len, raw_fb>>

\* x + 1, counted up to cap.
UpTo(x, cap) == IF x < cap THEN x + 1 ELSE cap
Down(x) == IF x > 0 THEN x - 1 ELSE 0

\* The locals of a task one tick later.
TickLoc(l) ==
    [l EXCEPT !.sleep = Down(@),
              !.ticks_to_wait = Down(@),
              !.seen = IF @ = Never THEN Never
                       ELSE UpTo(@, pdMS_TO_TICKS(MIN_CAPTURE_INTERVAL_MS)),
              !.clr.elapsed = IF l.pc \in ClearPcs
                              THEN UpTo(@, pdMS_TO_TICKS(CLEAR_TIMEOUT_MS) + 1)
                              ELSE @]

(***************************************************************************)
(* camera_init_with_config(params) and camera_deinit().                    *)
(***************************************************************************)
\* The error code of a failed esp_camera_init or esp_camera_deinit.
ESP_ERR_DRIVER == "ESP_ERR_DRIVER"

\* A semaphore object that was never created, or 0 when the model has none
\* left.
FreshSem ==
    IF \E h \in 1..MaxSems : sem[h] = "unused"
    THEN CHOOSE h \in 1..MaxSems :
           sem[h] = "unused" /\ \A g \in 1..(h - 1) : sem[g] # "unused"
    ELSE 0

\* The check that prevents a double initialization.
AlreadyInitializedNever == FALSE
AlreadyInitialized == camera_initialized

\* The level camera_init_with_config drives the flash pin to.
InitFlashLevelHigh == 0 + 1
InitFlashLevel == 0

\* camera_init_with_config up to the peripheral init call: params_ok says
\* params is non-NULL, create_ok that xSemaphoreCreateBinary succeeds.  The
\* checks, the creation of the semaphore with its permit, and the flash
\* pin reset, made an output and driven low.
CameraInit(t, params_ok, create_ok) ==
    /\ CanCall(t)
    /\ IF ~params_ok
       THEN /\ Return(t, ESP_ERR_INVALID_ARG)
            /\ UNCHANGED <<camera_semaphore, sem, flash>>
       ELSE IF AlreadyInitialized
       THEN /\ Return(t, ESP_OK)
            /\ UNCHANGED <<camera_semaphore, sem, flash>>
       ELSE IF camera_semaphore = 0 /\ ~create_ok
       THEN /\ Return(t, ESP_ERR_NO_MEM)
            /\ UNCHANGED <<camera_semaphore, sem, flash>>
       ELSE LET h == IF camera_semaphore = 0 THEN FreshSem
                     ELSE camera_semaphore
            IN  /\ h # 0
                /\ camera_semaphore' = h
                /\ sem' = IF camera_semaphore = 0
                          THEN [sem EXCEPT ![h] = "free"] ELSE sem
                /\ flash' = InitFlashLevel
                /\ loc' = [loc EXCEPT ![t].pc = "init_driver"]
                /\ ret' = [ret EXCEPT ![t] = NoRet]
    /\ UNCHANGED <<camera_initialized, since_capture, driver, heap, panic,
                   base64_image, base64_len, raw_fb>>

\* A failed init that returns without the cleanup of the semaphore.
CameraInitDriverLeaky(t, drv_ok) ==
    /\ At(t, "init_driver")
    /\ drv_init' = drv_ok
    /\ IF drv_ok
       THEN /\ camera_initialized' = TRUE
            /\ since_capture' = Never
            /\ Return(t, ESP_OK)
       ELSE /\ Return(t, ESP_ERR_DRIVER)
            /\ UNCHANGED <<camera_initialized, since_capture>>
    /\ UNCHANGED <<camera_semaphore, sem, flash, fb_out, bad_return, heap,
                   panic, base64_image, base64_len, raw_fb>>

\* esp_camera_init (drv_ok says it succeeds) and what follows it: the
\* statics are set, or on failure the semaphore is deleted (cleanup).
CameraInitDriver(t, drv_ok) ==
    /\ At(t, "init_driver")
    /\ drv_init' = drv_ok
    /\ IF drv_ok
       THEN /\ camera_initialized' = TRUE
            /\ since_capture' = Never
            /\ Return(t, ESP_OK)
            /\ UNCHANGED <<camera_semaphore, sem>>
       ELSE /\ IF camera_semaphore # 0
               THEN /\ sem' = [sem EXCEPT ![camera_semaphore] = "deleted"]
                    /\ camera_semaphore' = 0
               ELSE UNCHANGED <<camera_semaphore, sem>>
            /\ Return(t, ESP_ERR_DRIVER)
            /\ UNCHANGED <<camera_initialized, since_capture>>
    /\ UNCHANGED <<flash, fb_out, bad_return, heap, panic, base64_image,
                   base64_len, raw_fb>>

DeinitEntry(t) ==
    /\ CanCall(t)
    /\ IF ~camera_initialized THEN Return(t, ESP_ERR_INVALID_STATE)
       ELSE /\ loc' = [loc EXCEPT ![t].pc = "deinit_take"]
            /\ ret' = [ret EXCEPT ![t] = NoRet]
    /\ UNCHANGED <<statics, sem, flash, driver, heap, panic, base64_image,
                   base64_len, raw_fb>>

\* The semaphore is taken with a 5 s time-out when the handle is non-NULL.
DeinitTake(t) ==
    /\ At(t, "deinit_take")
    /\ IF camera_semaphore = 0
       THEN /\ loc' = [loc EXCEPT ![t].pc = "deinit_flash"]
            /\ UNCHANGED <<sem, panic>>
       ELSE TakeCall(t, DEINIT_TAKE_TIMEOUT_MS, "deinit_flash", "deinit_wait")
    /\ UNCHANGED <<statics, flash, driver, heap, callers>>

\* camera_deinit goes on when its xSemaphoreTake ends, whatever it returns.
DeinitWait(t) ==
    /\ loc[t].pc = "deinit_wait" /\ ~panic
    /\ LET h == loc[t].hwait
       IN  CASE sem[h] = "free" ->
                  /\ sem' = [sem EXCEPT ![h] = "taken"]
                  /\ loc' = [loc EXCEPT ![t] = Acquired(t, "deinit_flash")]
                  /\ UNCHANGED panic
             [] sem[h] = "taken" ->
                  /\ loc[t].ticks_to_wait = 0
                  /\ loc' = [loc EXCEPT ![t] =
                               [@ EXCEPT !.pc = "deinit_flash", !.hwait = 0]]
                  /\ UNCHANGED <<sem, panic>>
             [] OTHER ->
                  /\ panic' = TRUE
                  /\ UNCHANGED <<sem, loc>>
    /\ UNCHANGED <<statics, flash, driver, heap, callers>>

\* Flash off and the flush of pending buffers.
DeinitFlash(t) ==
    /\ At(t, "deinit_flash")
    /\ flash' = 0
    /\ loc' = [loc EXCEPT ![t] =
                 [@ EXCEPT !.pc = "deinit_clear", !.clr = ClearCall(10, 10)]]
    /\ UNCHANGED <<statics, sem, driver, heap, panic, callers>>

\* esp_camera_deinit (drv_ok says it succeeds), then the statics are reset
\* and the semaphore is deleted.
DeinitFinish(t, drv_ok) ==
    /\ At(t, "deinit_finish")
    /\ drv_init' = (IF drv_ok THEN FALSE ELSE drv_init)
    /\ fb_out' = (IF drv_ok THEN {} ELSE fb_out)
    /\ camera_initialized' = FALSE
    /\ since_capture' = Never
    /\ IF camera_semaphore # 0
       THEN /\ sem' = [sem EXCEPT ![camera_semaphore] = "deleted"]
            /\ camera_semaphore' = 0
       ELSE UNCHANGED <<sem, camera_semaphore>>
    /\ Return(t, IF drv_ok THEN ESP_OK ELSE ESP_ERR_DRIVER)
    /\ UNCHANGED <<flash, bad_return, heap, panic, base64_image, base64_len,
                   raw_fb>>

(***************************************************************************)
(* camera_diagnostic().                                                    *)
(***************************************************************************)
\* The buffer test of an initialised camera: test_fb = esp_camera_fb_get().
\* The function takes no semaphore and returns ESP_OK on every path.
DiagGet(t) ==
    /\ CanCall(t)
    /\ IF camera_initialized
       THEN \E f \in FbGetResults :
              /\ fb_out' = FbGot(f)
              /\ IF f = NullFb
                 THEN Return(t, ESP_OK)
                 ELSE /\ loc' = [loc EXCEPT ![t] =
                                   [@ EXCEPT !.pc = "diag_return", !.fb = f]]
                      /\ ret' = [ret EXCEPT ![t] = NoRet]
       ELSE /\ Return(t, ESP_OK)
            /\ UNCHANGED fb_out
    /\ UNCHANGED <<statics, sem, flash, drv_init, bad_return, heap, panic,
                   base64_image, base64_len, raw_fb>>

\* esp_camera_fb_return(test_fb), and the return.
DiagReturn(t) ==
    /\ At(t, "diag_return")
    /\ fb_out' = FbReturned(loc[t].fb)
    /\ bad_return' = FbReturnBad(loc[t].fb)
    /\ Return(t, ESP_OK)
    /\ UNCHANGED <<statics, sem, flash, drv_init, heap, panic,
                   base64_image, base64_len, raw_fb>>

\* The tick interrupt: xTaskGetTickCount() grows by one.
Tick ==
    /\ ~panic
    /\ since_capture' = IF since_capture = Never THEN Never
                        ELSE UpTo(since_capture,
                                  pdMS_TO_TICKS(MIN_CAPTURE_INTERVAL_MS))
    /\ loc' = [t \in Tasks |-> TickLoc(loc[t])]
    /\ UNCHANGED <<camera_initialized, camera_semaphore, sem, flash, driver,
                   heap, panic, callers>>

(***************************************************************************)
(* Specifications.                                                         *)
(***************************************************************************)
\* camera_upload_task before xTaskCreate: the task's cycle counters are
\* the firebase_upload_image and free calls of the current iteration.
UploadOff == [pc |-> "off", uploads |-> 0, frees |-> 0, upload_err |-> NoRet]

\* wifi_manager.c after boot: s_wifi_event_group = NULL (0), no bit set,
\* s_retry_num = 0, wifi_initialized = false; wifi_init_sta not called
\* (pc, ret, and woken, the bits its xEventGroupWaitBits returned), the
\* station not started and its link down; reconnects counts the
\* esp_wifi_connect calls of the disconnected branch since the last got-IP
\* event, connects says whether the last event's handler called
\* esp_wifi_connect, and is_connected is what the last wifi_is_connected
\* call returned (false before the first call).
WifiBoot == [s_wifi_event_group |-> 0, bits |-> {}, s_retry_num |-> 0,
             wifi_initialized |-> FALSE, pc |-> "idle", ret |-> NoRet,
             woken |-> {}, started |-> FALSE, link |-> "down",
             reconnects |-> 0, connects |-> FALSE, is_connected |-> FALSE]

\* The keys of the credentials namespace (config.h) and a key that is not
\* stored.
NvsKeys == {"wifi_ssid", "wifi_pass", "fb_project", "fb_db_url", "fb_api_key"}
Absent == -1
\* credentials_manager.c after boot, the namespace empty; ret is the last
\* return value of a function of the module.  A stored string is held as
\* its length.
CredentialsBoot == [credentials_initialized |-> FALSE,
                    nvs |-> [k \in NvsKeys |-> Absent], ret |-> NoRet]

\* The application around the camera manager is not running.
InitApp ==
    /\ upload = UploadOff
    /\ wifi = WifiBoot
    /\ credentials = CredentialsBoot

\* The camera manager and its callers before any call.
InitCamera ==
    /\ since_capture = Never
    /\ flash = 0
    /\ fb_out = {}
    /\ bad_return = FALSE
    /\ heap_live = 0
    /\ bad_free = FALSE
    /\ panic = FALSE
    /\ loc = [t \in Tasks |-> IdleLoc]
    /\ ret = [t \in Tasks |-> NoRet]
    /\ base64_image = [t \in Tasks |-> NullBuf]
    /\ base64_len = [t \in Tasks |-> 0]
    /\ raw_fb = [t \in Tasks |-> NullFb]

\* What holds in every initial state: no capture is recorded, nothing is
\* handed out, the board has PSRAM.
InitCommon ==
    /\ InitApp
    /\ InitCamera

\* The state after a successful camera_init_default().
InitCapture ==
    /\ InitCommon
    /\ camera_initialized = TRUE
    /\ camera_semaphore = 1
    /\ sem = [h \in 1..MaxSems |-> IF h = 1 THEN "free" ELSE "unused"]
    /\ drv_init = TRUE
    /\ sdkconfig = [psram |-> TRUE, tick_rate_hz |-> TickRateHz]

CaptureStep(t) ==
    \/ \E args_ok \in BOOLEAN : B64Entry(t, args_ok)
    \/ B64Rate(t)
    \/ B64Take(t)
    \/ B64Wait(t)
    \/ B64Attempt(t)
    \/ B64FlashOn(t)
    \/ B64Stabilize(t)
    \/ B64Get(t)
    \/ B64Validate(t)
    \/ B64FlashOff(t)
    \/ B64Alloc(t)
    \/ B64Encode(t)
    \/ B64Cleanup(t)
    \/ \E args_ok \in BOOLEAN : RawEntry(t, args_ok)
    \/ RawRate(t)
    \/ RawTake(t)
    \/ RawWait(t)
    \/ RawPrepare(t)
    \/ RawFlashOn(t)
    \/ RawStabilize(t)
    \/ RawGet(t)
    \/ ClearGet(t)
    \/ ClearReturn(t)
    \/ ReturnFrameBuffer(t)
    \/ FreeImage(t)

\* The state after boot: the statics hold their initialisers.
Init ==
    /\ InitCommon
    /\ camera_initialized = FALSE
    /\ camera_semaphore = 0
    /\ sem = [h \in 1..MaxSems |-> "unused"]
    /\ drv_init = FALSE
    /\ sdkconfig = [psram |-> TRUE, tick_rate_hz |-> BootTickRateHz]

\* Initialisation, teardown and diagnostic.
TeardownStep(t) ==
    \/ \E params_ok, create_ok \in BOOLEAN :
         CameraInit(t, params_ok, create_ok)
    \/ \E drv_ok \in BOOLEAN : CameraInitDriver(t, drv_ok)
    \/ DeinitEntry(t)
    \/ DeinitTake(t)
    \/ DeinitWait(t)
    \/ DeinitFlash(t)
    \/ ClearGet(t)
    \/ ClearReturn(t)
    \/ \E drv_ok \in BOOLEAN : DeinitFinish(t, drv_ok)
    \/ DiagGet(t)
    \/ DiagReturn(t)

LifecycleStep(t) ==
    \/ TeardownStep(t)
    \/ \E enable \in BOOLEAN : SetFlash(t, enable)

\* The task that captures periodically (camera_upload_task of main.c) and
\* the task that administers the camera.
UploadTask == 1
AdminTask == 2

Next == Tick \/ CaptureStep(UploadTask) \/ LifecycleStep(AdminTask)

\* From boot on: one task captures while another initialises and
\* deinitialises the camera and switches the flash.
Spec == Init /\ [][Next]_vars

\* From boot on, with no task that calls camera_set_flash.
NextNoSetFlash == Tick \/ CaptureStep(UploadTask) \/ TeardownStep(AdminTask)

SpecNoSetFlash == Init /\ [][NextNoSetFlash]_vars

NextCapture == Tick \/ \E t \in Tasks : CaptureStep(t)

\* Concurrent captures on an initialised camera.
SpecCapture == InitCapture /\ [][NextCapture]_vars

(***************************************************************************)
(* camera_upload_task (main.c): capture, upload, free, wait, for ever.     *)
(***************************************************************************)
\* if (err != ESP_OK) after camera_capture_to_base64.
CaptureFailedNever(err) == FALSE
CaptureFailed(err) == err # ESP_OK

\* vTaskDelay(pdMS_TO_TICKS(NUMBER_OF_SECONDS * 1000)), then the loop head.
NextCycle(t) ==
    [loc[t] EXCEPT !.sleep = pdMS_TO_TICKS(NUMBER_OF_SECONDS * 1000)]

\* The loop head: the timestamp, and the locals base64_image = NULL and
\* base64_len = 0 of the new iteration.
UtHead(t) ==
    /\ upload.pc = "head" /\ At(t, "idle")
    /\ upload' = [pc |-> "call", uploads |-> 0, frees |-> 0,
                  upload_err |-> NoRet]
    /\ base64_image' = [base64_image EXCEPT ![t] = NullBuf]
    /\ base64_len' = [base64_len EXCEPT ![t] = 0]
    /\ ret' = [ret EXCEPT ![t] = NoRet]
    /\ UNCHANGED <<statics, sem, flash, driver, heap_live, bad_free,
                   sdkconfig, wifi, credentials, panic, loc, raw_fb>>

\* err = camera_capture_to_base64(&base64_image, &base64_len): the call.
UtCall(t) ==
    /\ upload.pc = "call" /\ ret[t] = NoRet
    /\ B64Entry(t, TRUE)

\* The call has returned.  A failed capture: the delay and the next
\* iteration; otherwise the upload is next.
UtCheck(t) ==
    /\ upload.pc = "call" /\ At(t, "idle") /\ ret[t] # NoRet
    /\ IF CaptureFailed(ret[t])
       THEN /\ upload' = [upload EXCEPT !.pc = "head"]
            /\ loc' = [loc EXCEPT ![t] = NextCycle(t)]
       ELSE /\ upload' = [upload EXCEPT !.pc = "upload"]
            /\ UNCHANGED loc
    /\ UNCHANGED <<statics, sem, flash, driver, heap_live, bad_free,
                   sdkconfig, wifi, credentials, panic, callers>>

\* err = firebase_upload_image(base64_image, timestamp): the image is
\* copied into the request; upload_err is what the call returns.
UtUpload(t, upload_err) ==
    /\ upload.pc = "upload" /\ At(t, "idle")
    /\ upload' = [upload EXCEPT !.pc = "free", !.uploads = @ + 1,
                                !.upload_err = upload_err]
    /\ UNCHANGED <<statics, sem, flash, driver, heap_live, bad_free,
                   sdkconfig, wifi, credentials, panic, loc, callers>>

\* free(base64_image), the delay and the next iteration.
UtFree(t) ==
    /\ upload.pc = "free" /\ At(t, "idle")
    /\ IF base64_image[t] # NullBuf
       THEN /\ heap_live' = heap_live - 1
            /\ bad_free' = (bad_free \/ heap_live = 0)
       ELSE UNCHANGED <<heap_live, bad_free>>
    /\ upload' = [upload EXCEPT !.pc = "head", !.frees = @ + 1]
    /\ loc' = [loc EXCEPT ![t] = NextCycle(t)]
    /\ UNCHANGED <<statics, sem, flash, driver, sdkconfig, wifi, credentials,
                   panic, callers>>

\* The steps of camera_capture_to_base64 after its entry.  No other task
\* holds the semaphore here, so the take never blocks.
B64Step(t) ==
    \/ B64Rate(t)
    \/ B64Take(t)
    \/ B64Attempt(t)
    \/ B64FlashOn(t)
    \/ B64Stabilize(t)
    \/ B64Get(t)
    \/ B64Validate(t)
    \/ B64FlashOff(t)
    \/ B64Alloc(t)
    \/ B64Encode(t)
    \/ B64Cleanup(t)
    \/ ClearGet(t)
    \/ ClearReturn(t)

UploadFirebaseErrs == {ESP_OK, ESP_FAIL, ESP_ERR_NO_MEM}

UploadTaskStep(t) ==
    \/ UtHead(t)
    \/ UtCall(t)
    \/ B64Step(t)
    \/ UtCheck(t)
    \/ \E upload_err \in UploadFirebaseErrs : UtUpload(t, upload_err)
    \/ UtFree(t)

\* app_main has initialised the camera and created the task.
InitUpload ==
    /\ InitCamera
    /\ upload = [UploadOff EXCEPT !.pc = "head"]
    /\ wifi = WifiBoot
    /\ credentials = CredentialsBoot
    /\ camera_initialized = TRUE
    /\ camera_semaphore = 1
    /\ sem = [h \in 1..MaxSems |-> IF h = 1 THEN "free" ELSE "unused"]
    /\ drv_init = TRUE
    /\ sdkconfig = [psram |-> TRUE, tick_rate_hz |-> TickRateHz]

NextUpload == Tick \/ UploadTaskStep(UploadTask)

SpecUpload == InitUpload /\ [][NextUpload]_vars

\* The scheduler runs the task whenever it is ready, and the tick
\* interrupt keeps arriving.
SpecUploadFair ==
    SpecUpload /\ WF_vars(Tick) /\ WF_vars(UploadTaskStep(UploadTask))

(***************************************************************************)
(* wifi_manager.c: the event handler, wifi_init_sta, wifi_is_connected.    *)
(***************************************************************************)
\* Everything the camera manager and its callers own.
camera == <<statics, sem, flash, driver, heap_live, bad_free, sdkconfig,
            panic, loc, callers>>

\* if (s_retry_num < WIFI_MAXIMUM_RETRY) in the disconnected branch.
RetryAllowedOneMore(n) == n <= WIFI_MAXIMUM_RETRY
RetryAllowed(n) == n < WIFI_MAXIMUM_RETRY

\* xEventGroupSetBits(s_wifi_event_group, bit) on the record w: the bit is
\* set, and a wifi_init_sta blocked in xEventGroupWaitBits is unblocked
\* with the group's value at this moment.
SetBits(w, bit) ==
    [w EXCEPT !.bits = @ \cup {bit},
              !.woken = IF w.pc = "wait" /\ @ = {}
                        THEN w.bits \cup {bit} ELSE @]

\* wifi_init_sta(ssid, password) up to its xEventGroupWaitBits: the
\* argument checks (args_ok: both non-NULL and non-empty), the event group
\* (create_ok: xEventGroupCreate succeeds), and esp_wifi_start.
WifiInitSta(args_ok, create_ok) ==
    /\ wifi.pc = "idle"
    /\ wifi' = IF ~args_ok THEN [wifi EXCEPT !.ret = ESP_ERR_INVALID_ARG]
               ELSE IF ~create_ok
               THEN [wifi EXCEPT !.s_wifi_event_group = 0,
                                 !.ret = ESP_ERR_NO_MEM]
               ELSE [wifi EXCEPT !.s_wifi_event_group = 1, !.bits = {},
                                 !.pc = "wait", !.ret = NoRet,
                                 !.started = TRUE]
    /\ UNCHANGED <<camera, upload, credentials>>

\* The handler of WIFI_EVENT_STA_START: esp_wifi_connect().
EvStaStart ==
    /\ wifi.started
    /\ wifi' = [wifi EXCEPT !.connects = TRUE]
    /\ UNCHANGED <<camera, upload, credentials>>

\* The handler of WIFI_EVENT_STA_DISCONNECTED: a new esp_wifi_connect()
\* while retries are left, the fail bit otherwise.  The link is down.
EvStaDisconnected ==
    /\ wifi.started
    /\ wifi' = IF RetryAllowed(wifi.s_retry_num)
               THEN [wifi EXCEPT !.s_retry_num = @ + 1,
                                 !.reconnects = @ + 1,
                                 !.connects = TRUE, !.link = "down"]
               ELSE [SetBits(wifi, WIFI_FAIL_BIT) EXCEPT
                                 !.connects = FALSE, !.link = "down"]
    /\ UNCHANGED <<camera, upload, credentials>>

\* The handler of IP_EVENT_STA_GOT_IP: the retry counter is reset and the
\* connected bit set.  The link is up.
EvStaGotIp ==
    /\ wifi.started
    /\ wifi' = [SetBits(wifi, WIFI_CONNECTED_BIT) EXCEPT
                   !.s_retry_num = 0, !.reconnects = 0,
                   !.connects = FALSE, !.link = "up"]
    /\ UNCHANGED <<camera, upload, credentials>>

\* wifi_init_sta after its xEventGroupWaitBits has returned bits.
WifiInitStaReturns ==
    /\ wifi.pc = "wait" /\ wifi.woken # {}
    /\ wifi' = IF WIFI_CONNECTED_BIT \in wifi.woken
               THEN [wifi EXCEPT !.pc = "done", !.ret = ESP_OK,
                                 !.wifi_initialized = TRUE]
               ELSE [wifi EXCEPT !.pc = "done", !.ret = ESP_FAIL]
    /\ UNCHANGED <<camera, upload, credentials>>

\* wifi_is_connected().
WifiIsConnected ==
    /\ wifi' = [wifi EXCEPT !.is_connected =
                   IF ~wifi.wifi_initialized \/ wifi.s_wifi_event_group = 0
                   THEN FALSE
                   ELSE WIFI_CONNECTED_BIT \in wifi.bits]
    /\ UNCHANGED <<camera, upload, credentials>>

\* After boot: app_main calls wifi_init_sta, the event loop delivers the
\* station's events in any order, any task asks wifi_is_connected.
InitWifi ==
    /\ InitCamera
    /\ InitApp
    /\ camera_initialized = FALSE
    /\ camera_semaphore = 0
    /\ sem = [h \in 1..MaxSems |-> "unused"]
    /\ drv_init = FALSE
    /\ sdkconfig = [psram |-> TRUE, tick_rate_hz |-> BootTickRateHz]

NextWifi ==
    \/ \E args_ok, create_ok \in BOOLEAN : WifiInitSta(args_ok, create_ok)
    \/ EvStaStart
    \/ EvStaDisconnected
    \/ EvStaGotIp
    \/ WifiInitStaReturns
    \/ WifiIsConnected

SpecWifi == InitWifi /\ [][NextWifi]_vars

(***************************************************************************)
(* credentials_manager.c: the credentials in the NVS namespace.            *)
(***************************************************************************)
ESP_ERR_NVS_NOT_FOUND == "ESP_ERR_NVS_NOT_FOUND"
ESP_ERR_NVS_INVALID_LENGTH == "ESP_ERR_NVS_INVALID_LENGTH"
ESP_ERR_NVS == "ESP_ERR_NVS"

\* The fields of credentials_t in the order credentials_load reads and
\* credentials_save writes them, and the size of each field (config.h).
CredFields == <<"wifi_ssid", "wifi_pass", "fb_project", "fb_db_url",
                "fb_api_key">>
WifiKeys == {"wifi_ssid", "wifi_pass"}
FirebaseKeys == {"fb_project", "fb_db_url", "fb_api_key"}
FieldSize(k) ==
    CASE k = "wifi_ssid" -> 32
      [] k = "wifi_pass" -> 64
      [] k = "fb_project" -> 64
      [] k = "fb_db_url" -> 128
      [] OTHER -> 128

\* memset(&creds, 0, sizeof(credentials_t)): every field the empty string.
ZeroCreds == [k \in NvsKeys |-> 0]

\* nvs_get_str(handle, key, out, &size) on the namespace n: the string's
\* length, or an error when the key is not stored or the string with its
\* terminator does not fit.
NvsGetStr(n, k, size) ==
    IF n[k] = Absent THEN [err |-> ESP_ERR_NVS_NOT_FOUND, len |-> 0]
    ELSE IF n[k] + 1 > size
         THEN [err |-> ESP_ERR_NVS_INVALID_LENGTH, len |-> 0]
         ELSE [err |-> ESP_OK, len |-> n[k]]

\* credentials_load on an initialized module: the fields are read in
\* order into a zeroed structure and the first error is returned.
RECURSIVE LoadFrom(_, _, _)
LoadFrom(n, i, creds) ==
    IF i > Len(CredFields) THEN [err |-> ESP_OK, creds |-> creds]
    ELSE LET k == CredFields[i]
             r == NvsGetStr(n, k, FieldSize(k))
         IN  IF r.err # ESP_OK THEN [err |-> r.err, creds |-> creds]
             ELSE LoadFrom(n, i + 1, [creds EXCEPT ![k] = r.len])
CredentialsLoad(n) == LoadFrom(n, 1, ZeroCreds)

\* credentials_save on an initialized module: nvs_set_str for each field
\* in order, then nvs_commit; fail_at is the call that fails (1..5 a
\* nvs_set_str, 6 the commit, 0 none).  What was written stays written.
RECURSIVE SaveFrom(_, _, _, _)
SaveFrom(n, i, creds, fail_at) ==
    IF i > Len(CredFields)
    THEN [err |-> IF fail_at = i THEN ESP_ERR_NVS ELSE ESP_OK, nvs |-> n]
    ELSE IF fail_at = i THEN [err |-> ESP_ERR_NVS, nvs |-> n]
    ELSE SaveFrom([n EXCEPT ![CredFields[i]] = creds[CredFields[i]]],
                  i + 1, creds, fail_at)
CredentialsSave(n, creds, fail_at) == SaveFrom(n, 1, creds, fail_at)

\* strncpy(field, src, size - 1) into a field that ends with a zero byte.
Strncpy(len, size) == IF len < size - 1 THEN len ELSE size - 1

\* The structure credentials_set_wifi and credentials_set_firebase start
\* from: what credentials_load read, or zeroes when it failed.
LoadedOrZero(n) ==
    IF CredentialsLoad(n).err # ESP_OK THEN ZeroCreds
    ELSE CredentialsLoad(n).creds

\* The arguments of the setters: NULL, or a string of some length.
Null == -2
StrArgs == {Null, 0, 7, 40}
SaveFailures == 0..6
\* What the provisioning has stored under key k: nothing, a string that
\* fits the field, or one that is too long for it.
StoredValues(k) == {Absent, 5, FieldSize(k)}

\* credentials_init(): nvs_open.
CredentialsInit(open_ok) ==
    /\ credentials' = IF open_ok
                      THEN [credentials EXCEPT
                              !.credentials_initialized = TRUE,
                              !.ret = ESP_OK]
                      ELSE [credentials EXCEPT !.ret = ESP_ERR_NVS]
    /\ UNCHANGED <<camera, upload, wifi>>

\* credentials_set_wifi(ssid, password).
CredentialsSetWifi(ssid, password, fail_at) ==
    /\ credentials' =
         IF ~credentials.credentials_initialized
         THEN [credentials EXCEPT !.ret = ESP_ERR_INVALID_STATE]
         ELSE IF ssid = Null \/ password = Null
         THEN [credentials EXCEPT !.ret = ESP_ERR_INVALID_ARG]
         ELSE LET creds == [LoadedOrZero(credentials.nvs) EXCEPT
                              !["wifi_ssid"] =
                                  Strncpy(ssid, FieldSize("wifi_ssid")),
                              !["wifi_pass"] =
                                  Strncpy(password, FieldSize("wifi_pass"))]
                  r == CredentialsSave(credentials.nvs, creds, fail_at)
              IN  [credentials EXCEPT !.nvs = r.nvs, !.ret = r.err]
    /\ UNCHANGED <<camera, upload, wifi>>

\* credentials_set_firebase(project_id, db_url, api_key).
CredentialsSetFirebase(project_id, db_url, api_key, fail_at) ==
    /\ credentials' =
         IF ~credentials.credentials_initialized
         THEN [credentials EXCEPT !.ret = ESP_ERR_INVALID_STATE]
         ELSE IF project_id = Null \/ db_url = Null \/ api_key = Null
         THEN [credentials EXCEPT !.ret = ESP_ERR_INVALID_ARG]
         ELSE LET creds == [LoadedOrZero(credentials.nvs) EXCEPT
                              !["fb_project"] =
                                  Strncpy(project_id, FieldSize("fb_project")),
                              !["fb_db_url"] =
                                  Strncpy(db_url, FieldSize("fb_db_url")),
                              !["fb_api_key"] =
                                  Strncpy(api_key, FieldSize("fb_api_key"))]
                  r == CredentialsSave(credentials.nvs, creds, fail_at)
              IN  [credentials EXCEPT !.nvs = r.nvs, !.ret = r.err]
    /\ UNCHANGED <<camera, upload, wifi>>

\* credentials_erase_all(): nvs_erase_all (erase_ok) and the commit.
CredentialsEraseAll(erase_ok, commit_ok) ==
    /\ credentials' =
         IF ~credentials.credentials_initialized
         THEN [credentials EXCEPT !.ret = ESP_ERR_INVALID_STATE]
         ELSE IF ~erase_ok THEN [credentials EXCEPT !.ret = ESP_ERR_NVS]
         ELSE [credentials EXCEPT
                 !.nvs = [k \in NvsKeys |-> Absent],
                 !.ret = IF commit_ok THEN ESP_OK ELSE ESP_ERR_NVS]
    /\ UNCHANGED <<camera, upload, wifi>>

\* After boot, with any content of the namespace.
InitCredentials ==
    /\ InitCamera
    /\ upload = UploadOff
    /\ wifi = WifiBoot
    /\ \E n \in [NvsKeys -> {Absent, 5, 32, 64, 128}] :
         /\ \A k \in NvsKeys : n[k] \in StoredValues(k)
         /\ credentials = [CredentialsBoot EXCEPT !.nvs = n]
    /\ camera_initialized = FALSE
    /\ camera_semaphore = 0
    /\ sem = [h \in 1..MaxSems |-> "unused"]
    /\ drv_init = FALSE
    /\ sdkconfig = [psram |-> TRUE, tick_rate_hz |-> BootTickRateHz]

NextCredentials ==
    \/ \E open_ok \in BOOLEAN : CredentialsInit(open_ok)
    \/ \E erase_ok, commit_ok \in BOOLEAN :
         CredentialsEraseAll(erase_ok, commit_ok)
    \/ \E ssid, password \in StrArgs, fail_at \in SaveFailures :
         CredentialsSetWifi(ssid, password, fail_at)
    \/ \E project_id, db_url, api_key \in StrArgs, fail_at \in SaveFailures :
         CredentialsSetFirebase(project_id, db_url, api_key, fail_at)

SpecCredentials == InitCredentials /\ [][NextCredentials]_vars

(***************************************************************************)
(* Sizing and encoding: a capture that holds a valid frame of any length   *)
(* sizes the buffer, encodes, cleans up; the caller frees the image.       *)
(***************************************************************************)
SizingLens == (1..MaxFrameLen) \cup LargeFrameLens

InitSizing ==
    /\ InitApp
    /\ camera_initialized = TRUE
    /\ camera_semaphore = 1
    /\ since_capture = Never
    /\ sem = [h \in 1..MaxSems |-> IF h = 1 THEN "taken" ELSE "unused"]
    /\ flash = 0
    /\ drv_init = TRUE
    /\ fb_out = {1}
    /\ bad_return = FALSE
    /\ heap_live = 0
    /\ bad_free = FALSE
    /\ \E psram \in BOOLEAN :
         sdkconfig = [psram |-> psram, tick_rate_hz |-> TickRateHz]
    /\ panic = FALSE
    /\ \E n \in SizingLens :
         loc = [t \in Tasks |->
                  IF t = UploadTask
                  THEN [IdleLoc EXCEPT
                          !.pc = "b64_alloc", !.attempt = 1, !.nreq = 1,
                          !.fb = [h |-> 1, len |-> n, buf |-> TRUE],
                          !.waited = SETTLE_FIRST_MS + FLASH_WARMUP_MS
                                     + FLASH_STABILIZE_MS]
                  ELSE IdleLoc]
    /\ ret = [t \in Tasks |-> NoRet]
    /\ base64_image = [t \in Tasks |-> NullBuf]
    /\ base64_len = [t \in Tasks |-> 0]
    /\ raw_fb = [t \in Tasks |-> NullFb]

NextSizing ==
    \E t \in Tasks : \/ B64Alloc(t)
                     \/ B64Encode(t)
                     \/ B64Cleanup(t)
                     \/ FreeImage(t)

SpecSizing == InitSizing /\ [][NextSizing]_vars

(***************************************************************************)
(* Properties.                                                             *)
(***************************************************************************)
\* Positions of camera_capture_to_base64 and camera_capture_raw between the
\* successful xSemaphoreTake and the xSemaphoreGive.
B64GatePcs == {"b64_attempt", "b64_clear1", "b64_flash_on", "b64_stabilize",
               "b64_clear2", "b64_get", "b64_validate", "b64_flash_off",
               "b64_alloc", "b64_encode", "b64_cleanup"}
RawGatePcs == {"raw_prepare", "raw_clear", "raw_flash_on", "raw_stabilize",
               "raw_get"}
InGate(t) == loc[t].pc \in B64GatePcs \cup RawGatePcs
\* The call holds a frame it requested, or is about to request one.
AtPeripheral(t) ==
    \/ loc[t].pc \in {"b64_get", "b64_validate", "raw_get"}
    \/ loc[t].pc \in ClearPcs /\ InGate(t)
\* The flash window of the call: from its flash-on to its flash-off.
InFlashWindow(t) ==
    loc[t].pc \in {"b64_stabilize", "b64_clear2", "b64_get", "b64_validate",
                   "raw_stabilize", "raw_get"}
MinIntervalTicks == pdMS_TO_TICKS(MIN_CAPTURE_INTERVAL_MS)

\* C1: among concurrent camera_capture_to_base64 and camera_capture_raw
\* calls at most one is between its successful gate acquisition and its
\* gate release, and that one holds the semaphore; so at most one capture
\* is at the frame request and no two flash windows overlap.
C1_OneCaptureInGate ==
    \A t, u \in Tasks :
        /\ InGate(t) => sem[camera_semaphore] = "taken"
        /\ InGate(t) /\ InGate(u) => t = u
        /\ AtPeripheral(t) /\ AtPeripheral(u) => t = u
        /\ InFlashWindow(t) /\ InFlashWindow(u) => t = u
\* One capture is in its flash window while the other call is blocked on
\* the gate.
C1_Contended ==
    \E t, u \in Tasks :
        /\ InFlashWindow(t) /\ flash = 1
        /\ loc[u].pc \in {"b64_wait", "raw_wait"}

\* C2: a capture that records its completion in last_capture_time at t2,
\* when the recorded completion t1 of the capture before it is earlier
\* (t1 < t2), has t2 - t1 >= MIN_CAPTURE_INTERVAL_MS.
C2_RateFloor ==
    [][(since_capture' = 0 /\ since_capture \notin {Never, 0})
         => since_capture >= MinIntervalTicks]_vars

\* The frames some holder has and has not returned: the frame of a capture
\* attempt, the frame a flush is about to return, the frame a raw capture
\* handed to its caller.
HeldFrames ==
    {loc[t].fb.h : t \in {u \in Tasks : loc[u].fb # NullFb}}
    \cup {loc[t].clr.temp_fb : t \in {u \in Tasks : loc[u].clr.temp_fb # 0}}
    \cup {raw_fb[t].h : t \in {u \in Tasks : raw_fb[u] # NullFb}}
B64Pcs == {"b64_rate", "b64_take", "b64_wait"} \cup B64GatePcs

\* C3: every frame camera_capture_to_base64 obtains, in a flush or in an
\* attempt, is returned exactly once before the function returns: no frame
\* is returned that is not handed out, the frames handed out are exactly
\* those a running call (or the caller of a raw capture) still holds, a
\* task outside the function holds none of the function's frames, and the
\* function's return leaves none of its frames handed out.
C3_FramesConserved ==
    /\ ~bad_return
    /\ fb_out = HeldFrames
    /\ \A t \in Tasks :
          loc[t].pc \notin B64Pcs \cup {"raw_get"} => loc[t].fb = NullFb
    /\ \A t \in Tasks : loc[t].pc \notin ClearPcs => loc[t].clr.temp_fb = 0
\* A call has returned ESP_FAIL after an attempt whose frame was returned,
\* or has succeeded, and no frame is handed out.
C3_ReturnedAll ==
    \E t \in Tasks :
        /\ loc[t].pc = "idle" /\ ret[t] \in {ESP_OK, ESP_FAIL}
        /\ base64_image[t] # NullBuf
        /\ fb_out = {}

\* Task t returns from a call.
ReturnsAny(t) ==
    /\ loc[t].pc # "idle" \/ ret'[t] # ret[t]
    /\ loc'[t].pc = "idle"

\* C4 as stated: whenever a camera_capture_to_base64 or camera_capture_raw
\* call returns, with any result, the flash GPIO is low.
C4_FlashLowAtEveryReturn ==
    [][\A t \in Tasks : ReturnsAny(t) => flash' = 0]_vars
\* C4 amended: a capture call that acquired the gate returns with the flash
\* GPIO low; a call that returns without the gate (invalid state, invalid
\* argument, gate time-out) leaves the flash GPIO as it is.
C4_FlashLowAfterGate ==
    [][\A t \in Tasks :
         ReturnsAny(t) => IF InGate(t) THEN flash' = 0
                                       ELSE flash' = flash]_vars
\* One call has succeeded and the other has timed out on the gate; the
\* flash is low.
C4_BothReturned ==
    \E t, u \in Tasks :
        /\ loc[t].pc = "idle" /\ ret[t] = ESP_OK /\ base64_image[t] # NullBuf
        /\ loc[u].pc = "idle" /\ ret[u] = ESP_ERR_TIMEOUT
        /\ flash = 0

RECURSIVE SeqSum(_)
SeqSum(q) == IF q = <<>> THEN 0 ELSE Head(q) + SeqSum(Tail(q))

\* What is left of the flush in progress: two steps for each frame it may
\* still request.
FlushLeft(c) == 2 * (c.max_attempts - c.i) + (IF c.temp_fb = 0 THEN 1 ELSE 0)
\* A bound on the steps task t has left before camera_capture_to_base64
\* returns, counted from its position in the attempt and the attempts left.
StepsLeft(t) ==
    LET l == loc[t]
        in_attempt ==
            CASE l.pc = "b64_cleanup" -> 1
              [] l.pc = "b64_encode" -> 2
              [] l.pc = "b64_alloc" -> 3
              [] l.pc = "b64_flash_off" -> 4
              [] l.pc = "b64_validate" -> 5
              [] l.pc = "b64_get" -> 6
              [] l.pc = "b64_clear2" -> 7 + FlushLeft(l.clr)
              [] l.pc = "b64_stabilize" -> 19
              [] l.pc = "b64_flash_on" -> 20
              [] l.pc = "b64_clear1" -> 21 + FlushLeft(l.clr)
              [] l.pc = "b64_attempt" -> 33
              [] OTHER -> 0
    IN  IF l.pc \in B64GatePcs
        THEN 40 * (MAX_CAPTURE_RETRIES + 1 - l.attempt) + in_attempt
        ELSE 0
\* Task t takes a step of its own (the tick changes none of these).
Steps(t) ==
    \/ loc'[t].pc # loc[t].pc
    \/ loc'[t].clr.i # loc[t].clr.i
    \/ loc'[t].clr.temp_fb # loc[t].clr.temp_fb

\* C5: a camera_capture_to_base64 call that acquired the gate makes at most
\* 3 capture-attempt frame requests (flush requests not counted) and then
\* returns: it is never stuck (it is in a delay that the tick ends, or its
\* next step is enabled) and each of its steps lowers a bound on the steps
\* left.  Its backoff waits sum to at most 100 + 200 + 400 ms; once it holds
\* a valid frame it is past the retry loop and requests no frame.
C5_BoundedRetries ==
    [][\A t \in Tasks :
         /\ loc[t].nreq <= 3
         /\ SeqSum(loc[t].backoffs) <= 100 + 200 + 400
         /\ FrameValid(loc[t].fb) =>
               loc[t].pc \in {"b64_validate", "b64_flash_off",
                              "b64_alloc", "b64_encode", "b64_cleanup"}
         /\ loc'[t].nreq > loc[t].nreq => ~FrameValid(loc[t].fb)
         /\ loc[t].pc \in B64GatePcs =>
               /\ loc[t].sleep > 0 \/ ENABLED CaptureStep(t)
               /\ StepsLeft(t) > 0
               /\ IF Steps(t) THEN StepsLeft(t)' < StepsLeft(t)
                              ELSE StepsLeft(t)' = StepsLeft(t)]_vars
\* A call is in its third attempt, after two backoff waits.
C5_ThirdAttempt ==
    \E t \in Tasks :
        /\ loc[t].pc = "b64_validate" /\ loc[t].nreq = 3
        /\ Len(loc[t].backoffs) = 2

\* ceil(n * 4 / 3).
CeilFourThirds(n) == (4 * n + 2) \div 3

\* C6: for every frame length n >= 0 the capacity computed for the base64
\* transform is floor(n * 1.4) + 64, the buffer is allocated with one byte
\* more, and the capacity is >= ceil(n * 4 / 3) and holds the whole encoded
\* output and its terminator: the transform does not fail for lack of
\* space, the call does not return ESP_FAIL once it holds a valid frame,
\* and the image handed to the caller is the whole encoding, terminated
\* inside the buffer.
C6_EncodeBufferSuffices ==
    /\ \A n \in {0} \cup SizingLens :
          /\ EncodedLen(n) = (n * 14) \div 10 + 64
          /\ EncodedLen(n) >= CeilFourThirds(n)
          /\ EncodedLen(n) >= Base64Chars(n) + 1
          /\ MbedtlsBase64Encode(EncodedLen(n), n) =
                [rc |-> 0, olen |-> Base64Chars(n)]
    /\ \A t \in Tasks :
          /\ loc[t].encoded # NullBuf =>
                loc[t].encoded.cap = EncodedLen(loc[t].fb.len) + 1
          /\ loc[t].pc = "b64_cleanup" /\ loc[t].result = ESP_OK =>
                /\ base64_len[t] = Base64Chars(loc[t].fb.len)
                /\ base64_image[t].used = base64_len[t]
                /\ base64_image[t].used + 1 <= base64_image[t].cap
          /\ loc[t].result # ESP_FAIL /\ ret[t] # ESP_FAIL
\* The largest frame has been encoded into a PSRAM buffer and handed to
\* the caller.
C6_LargeImageEncoded ==
    \E t \in Tasks :
        /\ ret[t] = ESP_OK /\ base64_image[t].in_psram
        /\ base64_len[t] = Base64Chars(153600)

\* C7: a camera_capture_to_base64 or camera_capture_raw call made while
\* camera_initialized is false (before any init, after a failed init, after
\* deinit) returns ESP_ERR_INVALID_STATE at once and changes nothing else:
\* no frame request, no semaphore take, no flash change, no delay, no write
\* to last_capture_time or to the output parameters.
C7_UninitializedRejected ==
    [][\A t \in Tasks :
         (/\ ~camera_initialized
          /\ \E args_ok \in BOOLEAN : B64Entry(t, args_ok) \/ RawEntry(t, args_ok))
         => /\ ret'[t] = ESP_ERR_INVALID_STATE
            /\ loc'[t] = IdleLoc
            /\ UNCHANGED <<statics, sem, flash, driver, heap, panic,
                           base64_image, base64_len, raw_fb>>]_vars
\* The camera was deinitialised (its semaphore is deleted, the driver is
\* down) and a capture call has been rejected.
C7_RejectedAfterDeinit ==
    /\ ~camera_initialized /\ camera_semaphore = 0 /\ ~drv_init
    /\ sem[1] = "deleted"
    /\ loc[AdminTask].pc = "idle" /\ ret[AdminTask] = ESP_OK
    /\ loc[UploadTask].pc = "idle"
    /\ ret[UploadTask] = ESP_ERR_INVALID_STATE

\* The frames that callers of camera_capture_raw hold.
CallerFrames == {raw_fb[t].h : t \in {u \in Tasks : raw_fb[u] # NullFb}}

\* C8: a camera_capture_to_base64 call whose 3 attempts all yielded no
\* valid frame returns ESP_FAIL; at its return the flash is off, the gate
\* is free, no frame of the call is handed out, the output parameters are
\* as the caller passed them and last_capture_time is unchanged: no step of
\* the call before the encoding writes the outputs or last_capture_time,
\* and a call without a valid frame never reaches the encoding.
C8_ExhaustedRetries ==
    [][\A t \in Tasks :
         /\ (loc[t].pc \in B64Pcs \ {"b64_encode"} /\ Steps(t)) =>
               /\ since_capture' = since_capture
               /\ base64_image'[t] = base64_image[t]
               /\ base64_len'[t] = base64_len[t]
         /\ loc[t].pc \in {"b64_alloc", "b64_encode"} => FrameValid(loc[t].fb)
         /\ (loc[t].pc = "b64_cleanup" /\ ~FrameValid(loc[t].fb)) =>
               /\ loc[t].nreq = 3 /\ loc[t].fb = NullFb
               /\ loc[t].encoded = NullBuf
               /\ Steps(t) =>
                     /\ loc'[t].pc = "idle" /\ ret'[t] = ESP_FAIL
                     /\ flash' = 0
                     /\ sem'[camera_semaphore] = "free"
                     /\ fb_out' = CallerFrames'
                     /\ base64_image'[t] = NullBuf /\ base64_len'[t] = 0
                     /\ since_capture' = since_capture]_vars
\* All three attempts of a call have failed, the flash is off and the call
\* is about to release the gate, for which the other task waits.
C8_ExhaustedAtCleanup ==
    \E t, u \in Tasks :
        /\ loc[t].pc = "b64_cleanup" /\ loc[t].nreq = 3
        /\ loc[t].fb = NullFb /\ loc[t].result = ESP_FAIL /\ flash = 0
        /\ loc[u].pc = "b64_wait"

\* The backoff waits of C9 for a step of task t: after failed attempt 1 the
\* call waits 100 ms and after failed attempt 2 it waits 200 ms, after
\* failed attempt 3 it does not wait; a valid frame on attempt k comes
\* after exactly the first k - 1 of these waits and is followed by no
\* wait; and when attempt 3 yields the valid frame and no flush returned a
\* frame, the waits requested add up to 300 + 600 + 400 + 400 ms.
BackoffExact(t) ==
    LET l == loc[t]
    IN  /\ (l.pc = "b64_validate" /\ Steps(t) /\ ~FrameValid(l.fb)) =>
              /\ l.attempt = 1 =>
                    /\ loc'[t].backoffs = Append(l.backoffs, 100)
                    /\ loc'[t].sleep = pdMS_TO_TICKS(100)
                    /\ loc'[t].waited = l.waited + 100
              /\ l.attempt = 2 =>
                    /\ loc'[t].backoffs = Append(l.backoffs, 200)
                    /\ loc'[t].sleep = pdMS_TO_TICKS(200)
                    /\ loc'[t].waited = l.waited + 200
              /\ l.attempt = 3 =>
                    /\ loc'[t].backoffs = l.backoffs
                    /\ loc'[t].sleep = 0
                    /\ loc'[t].waited = l.waited
        /\ (l.pc \in B64GatePcs /\ FrameValid(l.fb)) =>
              /\ l.attempt \in 1..3 /\ l.nreq = l.attempt
              /\ l.backoffs = SubSeq(<<100, 200>>, 1, l.attempt - 1)
              /\ l.attempt = 3 /\ ~l.flushed =>
                    l.waited = 300 + 600 + 400 + 400
              /\ Steps(t) /\ loc'[t].pc # "idle" =>
                    /\ loc'[t].sleep = 0
                    /\ loc'[t].waited = l.waited
                    /\ loc'[t].fb = l.fb
\* The call returns ESP_OK and has handed the caller the encoding of the
\* frame it holds.
SucceedsWithFrame(t) ==
    /\ loc'[t].pc = "idle" /\ ret'[t] = ESP_OK
    /\ base64_len[t] = Base64Chars(loc[t].fb.len)
    /\ base64_image[t] # NullBuf /\ base64_image[t].used = base64_len[t]
    /\ UNCHANGED <<base64_image, base64_len>>

\* C9 as stated: when attempts 1..k-1 fail validation and attempt k <= 3
\* yields a valid frame, the call succeeds with that frame, and the backoff
\* waits are exactly as BackoffExact says.
C9_RetryThenSuccess ==
    [][\A t \in Tasks :
         /\ BackoffExact(t)
         /\ (loc[t].pc = "b64_cleanup" /\ FrameValid(loc[t].fb) /\ Steps(t))
               => SucceedsWithFrame(t)]_vars
\* C9 amended: when attempts 1..k-1 fail validation and attempt k <= 3
\* yields a valid frame, the call succeeds with that frame unless the
\* allocation of the encode buffer fails, in which case it returns
\* ESP_ERR_NO_MEM with the outputs unwritten; the backoff waits are exactly
\* as BackoffExact says.
C9_RetryThenSuccessOrNoMem ==
    [][\A t \in Tasks :
         /\ BackoffExact(t)
         /\ (loc[t].pc = "b64_cleanup" /\ FrameValid(loc[t].fb) /\ Steps(t))
               => \/ SucceedsWithFrame(t)
                  \/ /\ loc'[t].pc = "idle" /\ ret'[t] = ESP_ERR_NO_MEM
                     /\ base64_image'[t] = NullBuf /\ base64_len'[t] = 0
                     /\ UNCHANGED <<base64_image, base64_len>>]_vars
\* The third attempt of a call has yielded a valid frame after two backoff
\* waits and empty flushes, and the frame is being encoded.
C9_ThirdAttemptValid ==
    \E t \in Tasks :
        /\ loc[t].pc = "b64_encode" /\ loc[t].attempt = 3
        /\ FrameValid(loc[t].fb) /\ ~loc[t].flushed
        /\ loc[t].backoffs = <<100, 200>>
        /\ loc[t].waited = 1700

\* C10: a capture call that starts less than MIN_CAPTURE_INTERVAL_MS after
\* the capture recorded in last_capture_time delays for the rest of the
\* interval, and takes the gate only when at least the interval has passed
\* since the last_capture_time it read; a call that starts when
\* last_capture_time is 0 or the interval has passed requests no delay.
\* The rate check changes nothing but the caller's locals: the gate is not
\* taken, the flash and the driver are not touched before the wait is over.
C10_RateLimitWait ==
    [][\A t \in Tasks :
         /\ (loc[t].pc \in {"b64_rate", "raw_rate"} /\ Steps(t)) =>
               /\ loc'[t].pc \in {"b64_take", "raw_take"}
               /\ loc'[t].seen = since_capture
               /\ since_capture \in 0..(MinIntervalTicks - 1) =>
                     /\ loc'[t].sleep = MinIntervalTicks - since_capture
                     /\ loc'[t].sleep > 0
               /\ since_capture = Never \/ since_capture >= MinIntervalTicks
                     => loc'[t].sleep = 0
               /\ UNCHANGED <<statics, sem, flash, driver, heap, panic,
                              callers>>
         /\ (loc[t].pc \in {"b64_take", "raw_take"} /\ Steps(t)) =>
               /\ loc[t].sleep = 0
               /\ loc[t].seen = Never \/ loc[t].seen >= MinIntervalTicks]_vars
\* A call that started one tick after the last capture is in its rate
\* wait; the gate is free.
C10_Waiting ==
    \E t \in Tasks :
        /\ loc[t].pc \in {"b64_take", "raw_take"}
        /\ loc[t].seen = 1 /\ loc[t].sleep = MinIntervalTicks - 1
        /\ since_capture = 1
        /\ sem[camera_semaphore] = "free"

\* Task t is about to return from a camera_capture_to_base64 call whose
\* first attempt yielded a valid frame of 4096 bytes.
FirstAttempt4096(t) ==
    /\ loc[t].pc = "b64_cleanup" /\ Steps(t)
    /\ loc[t].attempt = 1 /\ loc[t].nreq = 1
    /\ FrameValid(loc[t].fb) /\ loc[t].fb.len = 4096
\* The call returns ESP_OK with an image of at most max_chars characters
\* that is the padded encoding of its frame, *output_len is that length.
ReturnsImage(t, max_chars) ==
    /\ loc'[t].pc = "idle" /\ ret'[t] = ESP_OK
    /\ base64_len'[t] <= max_chars
    /\ base64_len'[t] = Base64Chars(loc[t].fb.len)
    /\ base64_image'[t] # NullBuf
    /\ base64_image'[t].used = base64_len'[t]
    /\ Base64Padding(loc[t].fb.len) \in 0..2
\* The encoding step of a call records the capture in last_capture_time.
EncodeRecordsTime(t) ==
    (loc[t].pc = "b64_encode" /\ Steps(t)) =>
        /\ since_capture' = 0
        /\ base64_len'[t] = Base64Chars(loc[t].fb.len)

\* C11 as stated: when the first attempt yields a valid 4096-byte frame the
\* call returns success with a base64 string of 5462 or fewer characters
\* ending in 0 to 2 '=', reports the length and updates last_capture_time.
C11_ScenarioA ==
    [][\A t \in Tasks :
         /\ EncodeRecordsTime(t)
         /\ FirstAttempt4096(t) => ReturnsImage(t, 5462)]_vars
\* C11 amended: when the first attempt yields a valid 4096-byte frame the
\* call returns success with a base64 string of exactly 5464 characters
\* (5462 of data and two '=' of padding), reports that length and has
\* updated last_capture_time; unless the allocation of the encode buffer
\* fails, when it returns ESP_ERR_NO_MEM and has written neither.
C11_ScenarioAPadded ==
    [][\A t \in Tasks :
         /\ EncodeRecordsTime(t)
         /\ FirstAttempt4096(t) =>
               \/ /\ ReturnsImage(t, 5464)
                  /\ base64_len'[t] = 5464
                  /\ Base64Padding(loc[t].fb.len) = 2
                  /\ base64_len'[t] - 2 = Base64CharsUnpadded(4096)
                  /\ since_capture \in 0..MinIntervalTicks
               \/ /\ loc'[t].pc = "idle" /\ ret'[t] = ESP_ERR_NO_MEM
                  /\ loc[t].encoded = NullBuf
                  /\ base64_image'[t] = NullBuf /\ base64_len'[t] = 0]_vars
\* A call has returned the 5464 characters and the capture is recorded.
C11_Returned5464 ==
    \E t \in Tasks :
        /\ loc[t].pc = "idle" /\ ret[t] = ESP_OK
        /\ base64_len[t] = 5464 /\ base64_image[t].used = 5464
        /\ since_capture = 0

\* Task t is blocked in the xSemaphoreTake of a capture call.
GateWaitPcs == {"b64_wait", "raw_wait"}
\* The step by which task t's capture call gives up waiting for the gate.
GateTimesOut(t) ==
    /\ loc[t].pc \in GateWaitPcs /\ loc'[t].pc = "idle"

\* C12: a capture call that cannot acquire the gate within the bounded wait
\* returns ESP_ERR_TIMEOUT having requested no frame, changed no flash
\* level, written neither last_capture_time nor its outputs, and without
\* giving a permit to the gate, which its holder still holds.  No other
\* return of a capture call has that value.
C12_GateTimeout ==
    [][\A t \in Tasks :
         /\ GateTimesOut(t) =>
               /\ ret'[t] = ESP_ERR_TIMEOUT
               /\ loc[t].ticks_to_wait = 0
               /\ loc[t].nreq = 0 /\ ~loc[t].flushed /\ loc[t].fb = NullFb
               /\ UNCHANGED <<fb_out, bad_return, flash, since_capture,
                              camera_initialized, camera_semaphore,
                              heap_live>>
               /\ base64_image'[t] = base64_image[t]
               /\ base64_len'[t] = base64_len[t]
               /\ raw_fb'[t] = raw_fb[t]
               /\ sem' = sem /\ sem[camera_semaphore] = "taken"
               /\ \E u \in Tasks \ {t} : InGate(u) /\ loc'[u] = loc[u]
         /\ (ReturnsAny(t) /\ ret'[t] = ESP_ERR_TIMEOUT) => GateTimesOut(t)
         /\ (loc[t].pc \in GateWaitPcs /\ Steps(t)
             /\ sem[loc[t].hwait] = "taken") => GateTimesOut(t)]_vars
\* A call has timed out at the gate while the other task's capture holds
\* it with the flash on.
C12_TimedOutUnderHolder ==
    \E t \in Tasks, u \in Tasks :
        /\ loc[t].pc = "idle" /\ ret[t] = ESP_ERR_TIMEOUT
        /\ InGate(u) /\ flash = 1 /\ sem[camera_semaphore] = "taken"

\* Task t's call has made its interval check and has not yet recorded its
\* own capture.
IntervalChecked(t) ==
    loc[t].pc \in {"b64_take", "b64_wait", "raw_take", "raw_wait"}
                   \cup B64GatePcs \cup RawGatePcs
\* The step by which task u's capture records its time.
RecordsCapture(u) ==
    \/ /\ loc[u].pc = "b64_encode" /\ loc'[u].pc = "b64_cleanup"
       /\ loc'[u].result = ESP_OK
    \/ /\ loc[u].pc = "raw_get" /\ loc'[u].pc = "idle"
       /\ ret'[u] = ESP_OK

\* C13: in every capture call the interval check (the read of
\* last_capture_time and the computation of the wait) is made inside the
\* gate, so that no other capture records a new time between a call's
\* interval check and that call's own capture.
C13_IntervalCheckInGate ==
    [][\A t \in Tasks :
         /\ (loc[t].pc \in {"b64_rate", "raw_rate"} /\ Steps(t)) =>
               /\ sem[camera_semaphore] = "taken"
               /\ \A u \in Tasks \ {t} : ~InGate(u)
         /\ \A u \in Tasks \ {t} :
               IntervalChecked(t) => ~RecordsCapture(u)]_vars

\* A step that sets last_capture_time to a smaller value: from the time of
\* a capture back to 0.
TimeDecreases == since_capture # Never /\ since_capture' = Never
\* A step that leaves last_capture_time as it is (the time since the
\* capture grows with the tick count) or sets it to the current tick count.
TimeKeptOrAdvanced ==
    \/ since_capture' = since_capture
    \/ since_capture # Never /\ since_capture' = UpTo(since_capture, MinIntervalTicks)
    \/ since_capture' = 0

\* C14 as stated: across any sequence of public operations (init, captures,
\* set_flash, deinit, re-init) no step sets last_capture_time to a value
\* smaller than the value it held before the step.
C14_TimeOnlyAdvances == [][~TimeDecreases]_vars
\* C14 amended: a step that does not change the initialized flag never sets
\* last_capture_time to a smaller value, it keeps it or sets it to the
\* current time; the steps that lower it are the successful init and the
\* deinit, which reset it to 0 as they set or clear the initialized flag.
C14_TimeAdvancesBetweenResets ==
    [][/\ TimeDecreases => camera_initialized' # camera_initialized
       /\ ~TimeDecreases => TimeKeptOrAdvanced
       /\ camera_initialized' # camera_initialized
              => since_capture' = Never]_vars
\* The camera has been deinitialized, which reset last_capture_time, while
\* the caller still holds the image of a recorded capture.
C14_ResetAfterCapture ==
    /\ ~camera_initialized /\ since_capture = Never
    /\ ret[UploadTask] = ESP_OK /\ base64_image[UploadTask] # NullBuf
    /\ ret[AdminTask] = ESP_OK /\ loc[AdminTask].pc = "idle"

RawPcs == {"raw_rate", "raw_take", "raw_wait"} \cup RawGatePcs
\* The frames camera_capture_raw handed to callers that have not passed
\* them to camera_return_frame_buffer.
RawHandedOut == {raw_fb[t].h : t \in {u \in Tasks : raw_fb[u] # NullFb}}
\* The frames a call in progress holds: of a flush or of an attempt.
CallFrames(t) ==
    (IF loc[t].fb # NullFb THEN {loc[t].fb.h} ELSE {})
    \cup (IF loc[t].clr.temp_fb # 0 THEN {loc[t].clr.temp_fb} ELSE {})

\* C15: every frame camera_capture_raw obtains is returned to the peripheral
\* inside the call (flushed frames) or handed to the caller (the frame of an
\* ESP_OK return, exactly one, not returned by the call), never both and
\* never neither; a call that returns an error leaves no frame outstanding
\* and hands none out; camera_return_frame_buffer returns the frame handed
\* out.  The frames outstanding are those handed out and not yet returned,
\* together with the frame a call in progress holds; with no call in
\* progress they are exactly the frames handed out, one per holder.
C15_RawFramesAccounted ==
    [][/\ \A t \in Tasks :
            /\ (loc[t].pc \in RawPcs /\ loc'[t].pc = "idle") =>
                  /\ CallFrames(t) = {}
                  /\ IF ret'[t] = ESP_OK
                     THEN /\ raw_fb'[t] # NullFb
                          /\ raw_fb'[t].h \notin fb_out
                          /\ fb_out' = fb_out \cup {raw_fb'[t].h}
                     ELSE /\ raw_fb'[t] = NullFb
                          /\ fb_out' = fb_out
            /\ (raw_fb[t] # NullFb /\ raw_fb'[t] = NullFb) =>
                  /\ raw_fb[t].h \in fb_out
                  /\ fb_out' = fb_out \ {raw_fb[t].h}
            /\ (loc[t].pc \in RawPcs /\ loc'[t].pc \in RawPcs) =>
                  /\ raw_fb'[t] = NullFb
                  /\ Steps(t) => fb_out' \ fb_out \subseteq CallFrames(t)'
       /\ ~bad_return'
       /\ fb_out' = RawHandedOut' \cup UNION {CallFrames(t)' : t \in Tasks}
       /\ Cardinality(RawHandedOut')
            = Cardinality({t \in Tasks : raw_fb'[t] # NullFb})
       /\ (\A t \in Tasks : loc'[t].pc = "idle") =>
             Cardinality(fb_out')
               = Cardinality({t \in Tasks : raw_fb'[t] # NullFb})]_vars
\* A raw capture has handed its frame to the caller: no call is in progress
\* and the one frame outstanding is the caller's.
C15_FrameWithCaller ==
    \E t \in Tasks :
        /\ \A u \in Tasks : loc[u].pc = "idle"
        /\ ret[t] = ESP_OK /\ raw_fb[t] # NullFb
        /\ fb_out = {raw_fb[t].h}

\* The frame with which task t's capture call succeeds in this step: the
\* frame it encoded, or the frame a raw capture hands to its caller.
AcceptedFrame(t) ==
    IF loc[t].pc = "raw_get" THEN raw_fb'[t] ELSE loc[t].fb
\* camera_capture_to_base64 accepts only frames that pass the validation.
B64AcceptsValid(t) ==
    /\ (loc[t].pc = "b64_encode" /\ RecordsCapture(t))
          => FrameValid(AcceptedFrame(t))
    /\ (loc[t].pc = "b64_cleanup" /\ Steps(t) /\ ret'[t] = ESP_OK)
          => FrameValid(AcceptedFrame(t))
\* camera_capture_raw accepts only frames that pass the validation.
RawAcceptsValid(t) ==
    (loc[t].pc = "raw_get" /\ RecordsCapture(t))
        => FrameValid(AcceptedFrame(t))

\* C16: on both capture paths a frame is accepted as a successful capture
\* (a success return, an update of last_capture_time) only if its handle is
\* non-null, its length is nonzero and its data pointer is non-null.
C16_OnlyValidFramesAccepted ==
    [][\A t \in Tasks : B64AcceptsValid(t) /\ RawAcceptsValid(t)]_vars

\* The permit of the gate.
Gate == sem[camera_semaphore]
\* Task t's capture call, which holds the gate, returns in this step.
ReturnsFromGate(t) == InGate(t) /\ loc'[t].pc = "idle"

\* C17: a capture call that acquired the gate holds it until it returns
\* and gives it in the step that returns, on every exit path; the permit is
\* given by no other step; and while the camera stays initialized the gate
\* is free whenever no capture call is inside it.
C17_GateReleasedOnce ==
    [][/\ \A t \in Tasks :
            /\ ReturnsFromGate(t) => Gate = "taken" /\ Gate' = "free"
            /\ (InGate(t) /\ InGate(t)') => Gate = "taken" /\ Gate' = "taken"
       /\ (Gate = "taken" /\ Gate' = "free")
             => \E t \in Tasks : ReturnsFromGate(t)
       /\ camera_initialized' /\ camera_semaphore' = camera_semaphore
       /\ (\A t \in Tasks : ~InGate(t)') => Gate' = "free"]_vars
\* The gate is free after calls that left it through an error exit: one
\* returned ESP_ERR_NO_MEM and one ESP_FAIL.
C17_FreeAfterErrorExits ==
    \E t, u \in Tasks :
        /\ \A v \in Tasks : loc[v].pc = "idle"
        /\ ret[t] = ESP_ERR_NO_MEM /\ ret[u] = ESP_FAIL
        /\ camera_initialized /\ Gate = "free"

\* The flush loop of task t is about to request a frame.
ClearRequesting(t) ==
    /\ loc[t].clr.i < loc[t].clr.max_attempts
    /\ ~(loc[t].clr.elapsed > pdMS_TO_TICKS(CLEAR_TIMEOUT_MS))
\* Steps of task t that call esp_camera_fb_get or esp_camera_fb_return: in
\* a capture or a flush, in camera_deinit's flush, in camera_diagnostic, in
\* camera_return_frame_buffer.
CaptureFrameOp(t) ==
    \/ InGate(t) /\ ClearGet(t) /\ ClearRequesting(t)
    \/ InGate(t) /\ ClearReturn(t)
    \/ B64Get(t)
    \/ loc[t].pc \in B64GatePcs /\ Steps(t)
          /\ loc[t].fb # NullFb /\ loc'[t].fb = NullFb
    \/ RawGet(t)
DeinitFrameOp(t) ==
    /\ loc[t].pc = "deinit_clear"
    /\ (ClearGet(t) /\ ClearRequesting(t)) \/ ClearReturn(t)
DiagFrameOp(t) == (DiagGet(t) /\ camera_initialized) \/ DiagReturn(t)
\* Task t is past the xSemaphoreTake of its capture or of its camera_deinit.
PastTake(t) ==
    InGate(t) \/ loc[t].pc \in {"deinit_flash", "deinit_clear",
                                 "deinit_finish"}
\* Task t alone is past a take of the gate, whose permit is taken.
HoldsGateAlone(t) ==
    /\ PastTake(t)
    /\ camera_semaphore # 0 /\ sem[camera_semaphore] = "taken"
    /\ \A u \in Tasks \ {t} : ~PastTake(u)

\* C18: every frame request or frame return issued by an operation of the
\* camera manager (captures, buffer flushing, deinit, diagnostic, the return
\* of a raw frame) is executed while the calling task holds the gate.
C18_PeripheralUnderGate ==
    [][\A t \in Tasks :
         (CaptureFrameOp(t) \/ DeinitFrameOp(t) \/ DiagFrameOp(t)
            \/ ReturnFrameBuffer(t)) => HoldsGateAlone(t)]_vars

\* A call of camera_init_with_config with non-NULL parameters by task t
\* returns in this step: before the peripheral init call, or after it.
InitReturnsEarly(t) ==
    /\ \E create_ok \in BOOLEAN : CameraInit(t, TRUE, create_ok)
    /\ loc'[t].pc = "idle"
InitReturnsLate(t) == \E drv_ok \in BOOLEAN : CameraInitDriver(t, drv_ok)
\* The call goes on to the peripheral init call.
InitReachesDriver(t) == loc[t].pc = "idle" /\ loc'[t].pc = "init_driver"

\* C19 as stated: after any call to camera_init_with_config with non-null
\* parameters returns (first init, failed peripheral init, repeated init on
\* an initialized camera) the flash is off, and on the paths that touch the
\* peripheral the pin is driven low before the peripheral init call.
C19_FlashOffAfterInit ==
    [][\A t \in Tasks :
         /\ InitReachesDriver(t) => flash' = 0
         /\ (InitReturnsEarly(t) \/ InitReturnsLate(t)) => flash' = 0]_vars
\* C19 amended: on the paths that touch the peripheral the flash pin is
\* driven low before the peripheral init call, the call does not raise it
\* afterwards, and at its return the flash is off unless another task's
\* capture has switched it on meanwhile.  A call that returns before that
\* (repeated init on an initialized camera, failed semaphore creation)
\* does not touch the pin: the flash stays as it was, on or off.
C19_FlashLowBeforeDriverInit ==
    [][\A t \in Tasks :
         /\ InitReachesDriver(t) => flash' = 0
         /\ InitReturnsLate(t) =>
               /\ flash' = flash
               /\ flash' = 0 \/ \E u \in Tasks \ {t} : InGate(u)
         /\ InitReturnsEarly(t) => flash' = flash]_vars
\* A re-initialization after a deinit is at its peripheral init call with
\* the flash driven low.
C19_AtDriverInitFlashLow ==
    \E t \in Tasks :
        /\ loc[t].pc = "init_driver" /\ flash = 0
        /\ ~camera_initialized /\ camera_semaphore # 0
        /\ \E h \in 1..MaxSems : sem[h] = "deleted"

\* C20: camera_init_with_config on an already initialized camera returns
\* ESP_OK at once and changes nothing: the initialized flag, the gate (the
\* same semaphore with the same permit state), last_capture_time and the
\* peripheral (driver state, frames handed out) are as before, and the
\* call does not go on to the peripheral init.
C20_RepeatedInitNoOp ==
    [][\A t \in Tasks : \A create_ok \in BOOLEAN :
         (camera_initialized /\ CameraInit(t, TRUE, create_ok)) =>
             /\ loc'[t].pc = "idle" /\ ret'[t] = ESP_OK
             /\ UNCHANGED <<camera_initialized, camera_semaphore, sem,
                            since_capture, drv_init, fb_out, flash>>
             /\ \A u \in Tasks \ {t} : loc'[u] = loc[u]]_vars
\* A task can call the init again, and has had ESP_OK from a call, on an
\* initialized camera whose gate a capture holds, with a capture recorded
\* and the flash on.
C20_InitOnBusyCamera ==
    /\ camera_initialized /\ CanCall(AdminTask)
    /\ ret[AdminTask] = ESP_OK
    /\ since_capture # Never /\ flash = 1
    /\ sem[camera_semaphore] = "taken" /\ InGate(UploadTask)

\* The peripheral rejects the configuration: the init call of task t
\* returns from its peripheral init call without success.
InitRejected(t) ==
    /\ loc[t].pc = "init_driver" /\ loc'[t].pc = "idle"
    /\ ret'[t] # ESP_OK
\* No semaphore exists: none was created, or each one was deleted.
NoGate ==
    /\ camera_semaphore = 0
    /\ \A h \in 1..MaxSems : sem[h] \in {"unused", "deleted"}

\* C21: when the peripheral rejects the configuration the init returns the
\* driver's error code, the gate is destroyed and its handle cleared, the
\* camera stays uninitialized and last_capture_time is unchanged; the state
\* left is the clean one a later init starts from (no gate, no handle).
C21_FailedInitCleansUp ==
    [][\A t \in Tasks :
         InitRejected(t) =>
             /\ ret'[t] = ESP_ERR_DRIVER /\ ~drv_init'
             /\ camera_semaphore # 0
             /\ sem[camera_semaphore] \in {"free", "taken"}
             /\ sem'[camera_semaphore] = "deleted"
             /\ NoGate'
             /\ ~camera_initialized /\ ~camera_initialized'
             /\ since_capture' = since_capture
             /\ flash' = flash]_vars
\* The first init after boot was rejected, and a new init can be made.
C21_RejectedThenRetry ==
    /\ ret[AdminTask] = ESP_ERR_DRIVER /\ ~drv_init
    /\ sem[1] = "deleted" /\ sem[2] = "unused" /\ NoGate
    /\ ~camera_initialized
    /\ ENABLED (CameraInit(AdminTask, TRUE, TRUE)
                 /\ loc'[AdminTask].pc = "init_driver")

\* Task t's camera_capture_to_base64 returns an error in this step with a
\* captured frame in hand.
ErrorAfterFrame(t) ==
    /\ loc[t].pc = "b64_cleanup" /\ loc'[t].pc = "idle"
    /\ loc[t].fb # NullFb /\ ret'[t] # ESP_OK
\* The encode buffers that are allocated and not freed are the images the
\* callers hold.
NoBufferLeaked ==
    /\ ~bad_free
    /\ heap_live = Cardinality({u \in Tasks : base64_image[u] # NullBuf})

\* C22: when camera_capture_to_base64 returns an error after a frame was
\* captured (ESP_ERR_NO_MEM with both pools exhausted, ESP_FAIL when the
\* transform fails), the outputs are unwritten, the encode buffer, if one
\* was allocated, is freed once, the frame is returned to the peripheral
\* and the gate is given.
C22_NoPartialHandOff ==
    [][\A t \in Tasks :
         ErrorAfterFrame(t) =>
             /\ FrameValid(loc[t].fb)
             /\ \/ ret'[t] = ESP_ERR_NO_MEM /\ loc[t].encoded = NullBuf
                \/ ret'[t] = ESP_FAIL /\ loc[t].encoded # NullBuf
             /\ base64_image[t] = NullBuf /\ base64_image'[t] = NullBuf
             /\ base64_len[t] = 0 /\ base64_len'[t] = 0
             /\ heap_live' = heap_live -
                               (IF loc[t].encoded # NullBuf THEN 1 ELSE 0)
             /\ NoBufferLeaked'
             /\ loc[t].fb.h \in fb_out
             /\ fb_out' = fb_out \ {loc[t].fb.h}
             /\ ~bad_return'
             /\ sem[camera_semaphore] = "taken"
             /\ sem'[camera_semaphore] = "free"
             /\ since_capture' = since_capture]_vars
\* A call has returned ESP_ERR_NO_MEM and left nothing behind: no frame
\* outstanding, no buffer allocated, no output written, the gate free.
C22_NoMemLeftNothing ==
    \E t \in Tasks :
        /\ \A u \in Tasks : loc[u].pc = "idle"
        /\ ret[t] = ESP_ERR_NO_MEM
        /\ base64_image[t] = NullBuf /\ base64_len[t] = 0
        /\ fb_out = {} /\ heap_live = 0
        /\ sem[camera_semaphore] = "free"

\* Task t's camera_capture_to_base64 returns ESP_OK in this step.
B64Succeeds(t) ==
    /\ loc[t].pc = "b64_cleanup" /\ loc'[t].pc = "idle"
    /\ ret'[t] = ESP_OK

\* C23: on success camera_capture_to_base64 hands exactly one encode buffer
\* to the caller and does not free it: the function's own pointer is
\* cleared before the cleanup, *output_len is the length of the encoding,
\* the terminator is written at index *output_len (the field used of the
\* image), and that index is inside the capacity, which is the computed
\* size plus one.  The caller's free is the only free of the buffer.
C23_OwnershipTransferred ==
    [][\A t \in Tasks :
         /\ B64Succeeds(t) =>
               /\ loc[t].encoded = NullBuf
               /\ heap_live' = heap_live /\ heap_live' >= 1
               /\ base64_image'[t] # NullBuf
               /\ base64_len'[t] = Base64Chars(loc[t].fb.len)
               /\ base64_image'[t].used = base64_len'[t]
               /\ base64_image'[t].used < base64_image'[t].cap
               /\ base64_image'[t].cap = EncodedLen(loc[t].fb.len) + 1
               /\ NoBufferLeaked'
         /\ (base64_image[t] # NullBuf /\ base64_image'[t] = NullBuf)
               => heap_live' = heap_live - 1]_vars
\* The caller holds the one buffer allocated, a PSRAM buffer whose
\* terminator lies inside the capacity.
C23_CallerOwnsBuffer ==
    \E t \in Tasks :
        /\ loc[t].pc = "idle" /\ ret[t] = ESP_OK
        /\ base64_image[t].in_psram /\ heap_live = 1
        /\ base64_image[t].used = base64_len[t]
        /\ base64_len[t] = Base64Chars(65536)
        /\ base64_image[t].used < base64_image[t].cap

\* The sizes allocate_base64_buffer is called with.
AllocSizes == {EncodedLen(n) + 1 : n \in SizingLens}
\* The large pool is tried for this size.
LargePoolTried(size) ==
    sdkconfig.psram /\ size > PSRAM_MIN_SIZE_THRESHOLD

\* C24: for every size and every availability of the two pools,
\* allocate_base64_buffer returns a large-pool buffer iff the large pool is
\* initialized, the size exceeds PSRAM_MIN_SIZE_THRESHOLD and the large
\* pool can allocate; otherwise (pool failed, or skipped) it returns what
\* the default pool gives; the result is null only if the default pool
\* failed; used_psram is true iff the buffer is from the large pool.
C24_TierPolicy ==
    /\ \A size \in AllocSizes : \A psram_ok, dram_ok \in BOOLEAN :
          LET buf == AllocateBase64Buffer(size, psram_ok, dram_ok)
          IN  /\ buf.in_psram <=> (LargePoolTried(size) /\ psram_ok)
              /\ (~LargePoolTried(size) \/ ~psram_ok) =>
                    buf = (IF dram_ok
                           THEN [cap |-> size, in_psram |-> FALSE,
                                 used |-> 0]
                           ELSE NullBuf)
              /\ buf = NullBuf => ~dram_ok
              /\ buf # NullBuf => buf.cap = size
    /\ \A t \in Tasks :
          loc[t].encoded # NullBuf =>
              /\ loc[t].encoded.cap \in AllocSizes
              /\ loc[t].encoded.in_psram =>
                    LargePoolTried(loc[t].encoded.cap)
\* The large pool is initialized and failed for a size above the
\* threshold: the call holds a default-pool buffer of that size.
C24_FellBackToDefaultPool ==
    \E t \in Tasks :
        /\ loc[t].pc = "b64_encode" /\ sdkconfig.psram
        /\ loc[t].encoded # NullBuf /\ ~loc[t].encoded.in_psram
        /\ loc[t].encoded.cap = PSRAM_MIN_SIZE_THRESHOLD + 1

\* camera_deinit by task t on an uninitialized camera.
DeinitRejected(t) == ~camera_initialized /\ DeinitEntry(t)
\* camera_deinit by task t returns from its teardown.
DeinitReturns(t) == loc[t].pc = "deinit_finish" /\ loc'[t].pc = "idle"
\* What a rejected camera_deinit leaves alone.
DeinitRejectedNoOp(t) ==
    DeinitRejected(t) =>
        /\ ret'[t] = ESP_ERR_INVALID_STATE /\ loc'[t].pc = "idle"
        /\ UNCHANGED <<statics, sem, flash, driver, heap>>
\* What camera_deinit leaves, the flash apart.
DeinitTearsDown(t) ==
    DeinitReturns(t) =>
        /\ camera_initialized /\ ~camera_initialized'
        /\ since_capture' = Never
        /\ NoGate'
        /\ ret'[t] \in {ESP_OK, ESP_ERR_DRIVER}
        /\ ret'[t] = ESP_OK <=> ~drv_init'
\* Captures after the teardown, and the gate of a new init.
RejectedUntilInit(t) ==
    /\ (/\ ~camera_initialized
        /\ \E args_ok \in BOOLEAN :
              B64Entry(t, args_ok) \/ RawEntry(t, args_ok))
         => ret'[t] = ESP_ERR_INVALID_STATE /\ loc'[t].pc = "idle"
    /\ InitReachesDriver(t) =>
          /\ camera_semaphore = 0 /\ camera_semaphore' # 0
          /\ sem[camera_semaphore'] = "unused"
          /\ sem'[camera_semaphore'] = "free"

\* C25: camera_deinit on an uninitialized camera returns
\* ESP_ERR_INVALID_STATE and changes nothing; on an initialized camera it
\* always leaves the camera uninitialized with the flash off,
\* last_capture_time reset and the gate destroyed, also when the driver's
\* deinit fails (its error is returned); afterwards captures are rejected
\* with ESP_ERR_INVALID_STATE until an init succeeds, and a new init
\* creates a free gate.
C25_Lifecycle ==
    [][\A t \in Tasks :
         /\ DeinitRejectedNoOp(t)
         /\ DeinitTearsDown(t)
         /\ DeinitReturns(t) => flash' = 0
         /\ RejectedUntilInit(t)]_vars

\* C26: camera_set_flash on an initialized camera sets the flash to the
\* requested level and returns ESP_OK in one step, without taking or
\* waiting for the gate: the call can be made and completes whatever the
\* state of the gate, also while a capture holds it.  On an uninitialized
\* camera it returns ESP_ERR_INVALID_STATE and leaves the flash as it is.
C26_SetFlashWithoutGate ==
    [][\A t \in Tasks :
         /\ \A enable \in BOOLEAN :
               SetFlash(t, enable) =>
                   /\ loc'[t].pc = "idle" /\ loc'[t].sleep = 0
                   /\ UNCHANGED <<statics, sem, driver>>
                   /\ IF camera_initialized
                      THEN /\ ret'[t] = ESP_OK
                           /\ flash' = (IF enable THEN 1 ELSE 0)
                      ELSE /\ ret'[t] = ESP_ERR_INVALID_STATE
                           /\ flash' = flash
         /\ (t = AdminTask /\ CanCall(t)) =>
               \A enable \in BOOLEAN : ENABLED SetFlash(t, enable)]_vars
\* A capture holds the gate with the flash off, before its own flash
\* window, and camera_set_flash(true) can be called and complete.
C26_CallableUnderCapture ==
    /\ camera_initialized /\ flash = 0
    /\ sem[camera_semaphore] = "taken"
    /\ loc[UploadTask].pc = "b64_clear1"
    /\ ENABLED (SetFlash(AdminTask, TRUE) /\ flash' = 1
                 /\ ret'[AdminTask] = ESP_OK)

\* The positions of a capture between the write that raises the flash and
\* the write that lowers it.
FlashOnPcs == {"b64_stabilize", "b64_clear2", "b64_get", "b64_validate",
               "b64_flash_off", "raw_stabilize", "raw_get"}
\* The gate exists and its permit is available, or taken.
GateFree == camera_semaphore # 0 /\ sem[camera_semaphore] = "free"
GateTaken == camera_semaphore # 0 /\ sem[camera_semaphore] = "taken"
\* Task t is in a backoff wait between two attempts.
InBackoff(t) ==
    /\ loc[t].pc = "b64_attempt" /\ loc[t].attempt > 1
    /\ loc[t].sleep > 0

\* C27: without camera_set_flash calls the flash is on only inside the
\* capture window of a call that holds the gate: it is on only between a
\* capture's flash-on and flash-off writes, which lie inside the gate, it
\* is off during every backoff wait and at the head of every attempt, and
\* it is off whenever the gate is free.
C27_FlashOnlyInWindow ==
    /\ flash = 1 => \E t \in Tasks : loc[t].pc \in FlashOnPcs /\ InGate(t)
    /\ \A t \in Tasks :
          /\ loc[t].pc \in FlashOnPcs => GateTaken
          /\ InBackoff(t) => flash = 0
          /\ loc[t].pc \in {"b64_attempt", "b64_clear1", "b64_flash_on",
                             "b64_alloc", "b64_encode", "b64_cleanup"}
                => flash = 0
    /\ GateFree => flash = 0

\* The tick count grows and nothing is written to last_capture_time: the
\* time since the capture grows by one.
TimeAges ==
    /\ since_capture # Never /\ since_capture' = since_capture + 1
    /\ \A t \in Tasks : loc'[t].pc = loc[t].pc

\* C28: a capture writes last_capture_time only inside the gate, on the
\* path that returns ESP_OK and before the gate is given: the only writes
\* are those of a successful encoding and of a raw capture that obtained a
\* frame, the step that gives the gate and returns writes nothing, and a
\* call that returns an error has written nothing.
C28_TimeWrittenOnSuccess ==
    [][/\ since_capture' # since_capture =>
            \/ TimeAges
            \/ since_capture' = 0 /\ \E t \in Tasks : RecordsCapture(t)
       /\ \A t \in Tasks :
            /\ RecordsCapture(t) =>
                  /\ since_capture' = 0
                  /\ InGate(t) /\ GateTaken
                  /\ \A u \in Tasks \ {t} : ~InGate(u)
                  /\ loc[t].pc = "b64_encode" =>
                        /\ loc'[t].result = ESP_OK /\ GateTaken'
                        /\ base64_image'[t] # NullBuf
            /\ (loc[t].pc = "b64_cleanup" /\ Steps(t)) =>
                  /\ ret'[t] = loc[t].result
                  /\ since_capture' = since_capture
                  /\ ret'[t] = ESP_OK <=> base64_image[t] # NullBuf
            /\ (ReturnsAny(t) /\ ret'[t] # ESP_OK) =>
                  /\ since_capture' = since_capture
                  /\ ~RecordsCapture(t)
                  /\ base64_image[t] = NullBuf /\ raw_fb'[t] = NullFb]_vars
\* A call returned ESP_FAIL and the other ESP_ERR_TIMEOUT, and no capture
\* time has been written.
C28_ErrorsWroteNothing ==
    \E t, u \in Tasks :
        /\ \A v \in Tasks : loc[v].pc = "idle"
        /\ ret[t] = ESP_FAIL /\ ret[u] = ESP_ERR_TIMEOUT
        /\ since_capture = Never

\* Steps of the flush of task t: it requests and obtains a frame, it
\* returns the frame it holds, it leaves the loop.
FlushObtains(t) ==
    /\ loc[t].pc \in ClearPcs
    /\ loc[t].clr.temp_fb = 0 /\ loc'[t].clr.temp_fb # 0
FlushReturns(t) ==
    /\ loc[t].pc \in ClearPcs
    /\ loc[t].clr.temp_fb # 0 /\ loc'[t].clr.temp_fb = 0
FlushLeaves(t) == loc[t].pc \in ClearPcs /\ loc'[t].pc # loc[t].pc
FlushTimedOut(c) == c.elapsed > pdMS_TO_TICKS(CLEAR_TIMEOUT_MS)

\* C29: clear_camera_buffers terminates: it is never stuck, each of its
\* steps lowers a bound on the steps left, it requests a frame only while
\* fewer than max_attempts were requested and no more than 2 s have
\* elapsed, it leaves the loop at the first null frame, it returns each
\* frame it obtained once, before the next request and before it leaves,
\* and its result (cleared) is the number of frames it returned.
C29_FlushTerminates ==
    [][\A t \in Tasks :
         loc[t].pc \in ClearPcs =>
           LET c == loc[t].clr
               d == loc'[t].clr
           IN  /\ c.i <= c.max_attempts /\ c.cleared = c.i
               /\ c.max_attempts \in {3, 5, 10}
               /\ loc[t].sleep > 0 \/ panic
                     \/ ENABLED (ClearGet(t) \/ ClearReturn(t))
               /\ FlushLeft(c) > 0
               /\ (Steps(t) /\ ~FlushLeaves(t)) =>
                     FlushLeft(d) < FlushLeft(c)
               /\ FlushObtains(t) =>
                     /\ c.i < c.max_attempts /\ ~FlushTimedOut(c)
                     /\ d.temp_fb \notin fb_out
                     /\ fb_out' = fb_out \cup {d.temp_fb}
                     /\ d.cleared = c.cleared
               /\ FlushReturns(t) =>
                     /\ fb_out' = fb_out \ {c.temp_fb}
                     /\ d.cleared = c.cleared + 1 /\ d.i = c.i + 1
               /\ FlushLeaves(t) =>
                     /\ c.temp_fb = 0 /\ fb_out' = fb_out
                     /\ d = NoClear]_vars
\* A flush has returned a frame and is past its 2 s with attempts left: it
\* is about to stop on the time-out.
C29_FlushPastTimeout ==
    \E t \in Tasks :
        /\ loc[t].pc \in ClearPcs /\ loc[t].clr.temp_fb = 0
        /\ FlushTimedOut(loc[t].clr)
        /\ loc[t].clr.i >= 1 /\ loc[t].clr.i < loc[t].clr.max_attempts

\* camera_deinit is past its xSemaphoreTake: at the flash write, in the
\* flush, or at the driver deinit that ends with the gate's deletion.
InTeardown(t) ==
    loc[t].pc \in {"deinit_flash", "deinit_clear", "deinit_finish"}

\* C30: camera_deinit tears down (flash write, flush, driver deinit, flag
\* cleared, gate destroyed) only with the gate acquired: while it is past
\* its take, and at the step that destroys the gate, no capture is between
\* its own gate acquisition and its gate release.
C30_NoTeardownUnderCapture ==
    [][\A t \in Tasks :
         /\ InTeardown(t) => \A u \in Tasks \ {t} : ~InGate(u)
         /\ DeinitReturns(t) =>
               /\ NoGate'
               /\ \A u \in Tasks \ {t} : ~InGate(u)]_vars

\* A capture call that passed its initialized check and has not yet taken
\* the gate: its next gate operation is the xSemaphoreTake.
CaptureBeforeTake(t) == loc[t].pc \in {"b64_take", "raw_take"}

\* C31: under any interleaving with camera_deinit a capture uses a live
\* gate only: the gate it is about to take exists and is not deleted, the
\* gate it waits on is not deleted, and while it is between its take and
\* its give the camera is initialized (for its frame requests) and the gate
\* exists (for its give); no gate operation stops the system.
C31_CaptureOnLiveGate ==
    /\ ~panic
    /\ \A t \in Tasks :
         /\ CaptureBeforeTake(t) => SemOk(camera_semaphore)
         /\ loc[t].pc \in GateWaitPcs => sem[loc[t].hwait] # "deleted"
         /\ InGate(t) => camera_initialized /\ SemOk(camera_semaphore)

\* Steps of camera_upload_task: it finds that its capture failed, it
\* uploads, it frees, it ends a cycle.
UtSkipsCycle == upload.pc = "call" /\ upload'.pc = "head"
UtUploads == upload'.uploads = upload.uploads + 1
UtFrees == upload'.frees = upload.frees + 1
UtEndsCycle == upload.pc # "head" /\ upload'.pc = "head"
StandardInterval == pdMS_TO_TICKS(NUMBER_OF_SECONDS * 1000)

\* C32: in every cycle of camera_upload_task a failed capture is followed
\* by no upload and no free, a successful one by exactly one upload of the
\* live image and then exactly one free of it, whatever the upload
\* returns; every cycle ends with no buffer allocated, in the standard
\* delay before the next cycle, and the task is never stuck and calls the
\* capture again and again; no buffer is freed twice or read after it was
\* freed.
C32_UploadCycle ==
    /\ []<>(upload.pc = "call" /\ loc[UploadTask].pc # "idle")
    /\ [][LET t == UploadTask
       IN  /\ ~bad_free /\ heap_live <= 1
           /\ loc[t].sleep > 0 \/ panic \/ ENABLED UploadTaskStep(t)
           /\ UtSkipsCycle =>
                 /\ ret[t] \notin {NoRet, ESP_OK}
                 /\ upload.uploads = 0 /\ upload.frees = 0
                 /\ base64_image[t] = NullBuf /\ heap_live = 0
                 /\ UNCHANGED <<heap_live, bad_free, base64_image>>
           /\ UtUploads =>
                 /\ ret[t] = ESP_OK
                 /\ upload.uploads = 0 /\ upload.frees = 0
                 /\ base64_image[t] # NullBuf /\ heap_live = 1
           /\ UtFrees =>
                 /\ ret[t] = ESP_OK
                 /\ upload.uploads = 1 /\ upload.frees = 0
                 /\ upload.upload_err \in UploadFirebaseErrs
                 /\ heap_live = 1 /\ heap_live' = 0 /\ ~bad_free'
           /\ UtEndsCycle =>
                 /\ heap_live' = 0
                 /\ loc'[t].pc = "idle"
                 /\ loc'[t].sleep = StandardInterval /\ StandardInterval > 0
                 /\ upload'.uploads = upload'.frees
                 /\ upload'.uploads = (IF ret[t] = ESP_OK THEN 1 ELSE 0)]_vars
\* A cycle has ended whose capture succeeded and whose upload failed: the
\* image was uploaded once and freed once.
C32_FreedAfterFailedUpload ==
    /\ upload.pc = "head" /\ ret[UploadTask] = ESP_OK
    /\ upload.upload_err = ESP_FAIL
    /\ upload.uploads = 1 /\ upload.frees = 1 /\ heap_live = 0

\* C33: the connect loop is bounded.  At most WIFI_MAXIMUM_RETRY
\* reconnects are made without a got-IP event in between; a disconnected
\* event reconnects while fewer were made and otherwise sets the fail bit
\* and calls no connect; a got-IP event resets the retry counter and sets
\* the connected bit; wifi_init_sta returns ESP_OK if the bits its wait
\* returned hold the connected bit and ESP_FAIL otherwise.
C33_BoundedConnectLoop ==
    [][/\ wifi'.reconnects <= WIFI_MAXIMUM_RETRY
       /\ wifi'.s_retry_num = wifi'.reconnects
       /\ EvStaDisconnected =>
             IF wifi.reconnects < WIFI_MAXIMUM_RETRY
             THEN /\ wifi'.connects
                  /\ wifi'.reconnects = wifi.reconnects + 1
                  /\ wifi'.bits = wifi.bits
             ELSE /\ ~wifi'.connects
                  /\ wifi'.reconnects = wifi.reconnects
                  /\ wifi'.bits = wifi.bits \cup {WIFI_FAIL_BIT}
       /\ EvStaGotIp =>
             /\ wifi'.s_retry_num = 0
             /\ wifi'.bits = wifi.bits \cup {WIFI_CONNECTED_BIT}
       /\ WifiInitStaReturns =>
             /\ wifi.woken # {} /\ wifi.woken \subseteq wifi.bits
             /\ wifi'.ret = ESP_OK <=> WIFI_CONNECTED_BIT \in wifi.woken
             /\ wifi'.ret \in {ESP_OK, ESP_FAIL}
             /\ wifi'.wifi_initialized = (wifi'.ret = ESP_OK)]_vars
\* The retry budget is used up, the fail bit is set and wifi_init_sta has
\* returned ESP_FAIL.
C33_RetriesExhausted ==
    /\ wifi.pc = "done" /\ wifi.ret = ESP_FAIL
    /\ wifi.reconnects = WIFI_MAXIMUM_RETRY
    /\ WIFI_FAIL_BIT \in wifi.bits /\ ~wifi.connects

\* C34: wifi_is_connected returns true only while the station is
\* connected: the last link event was got-IP, with no disconnected event
\* since.
C34_IsConnectedIsCurrent ==
    [][(WifiIsConnected /\ wifi'.is_connected) =>
          wifi.link = "up"]_vars

\* C35: credentials_set_wifi leaves the three stored cloud-service fields
\* as they were, and credentials_set_firebase the two stored WiFi fields,
\* for every prior content of the store.
C35_SettersKeepOtherFields ==
    [][/\ (\E ssid, password \in StrArgs, fail_at \in SaveFailures :
             CredentialsSetWifi(ssid, password, fail_at)) =>
            \A k \in FirebaseKeys : credentials'.nvs[k] = credentials.nvs[k]
       /\ (\E project_id, db_url, api_key \in StrArgs,
              fail_at \in SaveFailures :
             CredentialsSetFirebase(project_id, db_url, api_key, fail_at)) =>
            \A k \in WifiKeys : credentials'.nvs[k] = credentials.nvs[k]]_vars

=============================================================================
